---- MODULE Spec2Model ----
(***************************************************************************)
(* Verification model of the Knowledge repository (python):               *)
(*   src/src/processor/kb_repository.py     KnowledgeBaseRepository        *)
(*   src/src/processor/citation_processor.py CitationProcessor             *)
(*   src/src/ingestor/bulk_ingestor.py      BulkIngestor                   *)
(*   src/src/ui/app.py                      worker pool of the web tier    *)
(*                                                                         *)
(* Conventions.  A name is a sequence of one-character strings.  A         *)
(* directory is <<kb, dir>> with dir a sequence of path components (<<>>   *)
(* is the knowledge base root).  A file path is the record                 *)
(* [kb, dir, name]; name is a tuple such as <<"d1", "json">> for           *)
(* d1.json, <<"d1", "chunk", 0, "txt">> for d1_chunk_0.txt or              *)
(* <<"doc", name, "md">> for a documentation file.  File                   *)
(* contents are records.  A repository operation is an operator from a     *)
(* world [dirs, files, index, log] and its arguments to the new world,     *)
(* the result and the outcome of the commit step, so that callers          *)
(* (BulkIngestor) can compose them.  I/O failures are inputs of the        *)
(* operations.                                                             *)
(*                                                                         *)
(* Specifications: SpecRepo (KnowledgeBaseRepository), SpecIngest          *)
(* (BulkIngestor.process_directory), SpecCite (CitationProcessor),         *)
(* SpecWorkers (worker pool of ui/app.py).                                 *)
(***************************************************************************)
EXTENDS Integers, Sequences, FiniteSets, TLC

VARIABLES
    dirs,       \* directories that exist: <<kb, dir>>
    files,      \* the files that exist and their contents
    index,      \* the git index (staged content) of the repositories
    log,        \* per knowledge base directory, the commits: [msg, tree]
    last,       \* the last repository call: operation, arguments, outcome
    clean,      \* no call so far raised after writing or lost its commit
    ncalls,     \* the number of repository calls made
    \* CitationProcessor
    cite_doc,           \* the document file handed to process_document
    cite_chunks,        \* the chunk list handed to generate_chunk_citations
    citation_files,     \* citations/{doc_id}_citation.json by doc_id
    cite_result,        \* the last generate_chunk_citations call
    \* BulkIngestor
    ingestor,           \* the constructed BulkIngestor, if any
    batch,              \* the last process_directory call
    nbatches,           \* the number of process_directory calls made
    \* worker pool of ui/app.py
    processing_queue,   \* queue.Queue of task ids
    tasks,              \* every submitted task by id: type, kb_name, status
    running,            \* per worker thread, the task it executes (0: none)
    worker_count,       \* the global worker_count
    \* calls of functions without side effects
    call                \* the call: function, arguments and, once made, result

repoVars == <<dirs, files, index, log, last, clean, ncalls>>
citeVars == <<cite_doc, cite_chunks, citation_files, cite_result>>
ingestVars == <<ingestor, batch, nbatches>>
workerVars == <<processing_queue, tasks, running, worker_count>>
pureVars == <<call>>
vars == <<repoVars, citeVars, ingestVars, workerVars, pureVars>>

----------------------------------------------------------------------------
(* Bounds *)

\* repository calls in one run
MaxCalls == 3
\* characters of a name handed to _sanitize_name
MaxNameLen == 3

----------------------------------------------------------------------------
(* Generic helpers *)

Range(s) == {s[i] : i \in 1..Len(s)}

\* dict.get(key, default)
Get(d, key, default) == IF key \in DOMAIN d THEN d[key] ELSE default

\* d[key] = value on a dict
Put(d, key, value) ==
    [k \in (DOMAIN d) \cup {key} |-> IF k = key THEN value ELSE d[k]]

Path(kb, dir, name) == [kb |-> kb, dir |-> dir, name |-> name]

\* Path.mkdir(parents=True, exist_ok=True): the directory and its ancestors
MkdirP(ds, kb, dir) == ds \cup {<<kb, SubSeq(dir, 1, n)>> : n \in 0..Len(dir)}

\* open(path, 'w'); f.write(content): replaces the content
WriteFile(fs, p, content) ==
    [q \in (DOMAIN fs) \cup {p} |-> IF q = p THEN content ELSE fs[q]]

FilesOf(fs, kb) == {p \in DOMAIN fs : p.kb = kb}

Restrict(f, S) == [x \in S |-> f[x]]

\* the result of an operation: a returned value or a raised error
Ok(v) == [status |-> "ok", value |-> v]
Err(kind) == [status |-> kind]

----------------------------------------------------------------------------
(* KnowledgeBaseRepository._sanitize_name *)

Letters == {"a", "b", "k", "m", "y"}
UpperOf ==
    [c \in Letters |->
        CASE c = "a" -> "A" [] c = "b" -> "B" [] c = "k" -> "K" [] c = "m" -> "M"
          [] c = "y" -> "Y"]
Uppers == {UpperOf[c] : c \in Letters}
Digits == {"0", "1", "2", "4"}

isalnum(c) == c \in Letters \cup Uppers \cup Digits

\* a conversion that swaps the case of a letter
lower_swapcase(c) ==
    IF c \in Uppers THEN CHOOSE l \in Letters : UpperOf[l] = c
    ELSE IF c \in Letters THEN UpperOf[c] ELSE c

\* str.lower() on one character
lower(c) == IF c \in Uppers THEN CHOOSE l \in Letters : UpperOf[l] = c ELSE c

_sanitize_char(c) ==
    LET kept == IF isalnum(c) \/ c \in {".", "_", "-", " "} THEN c ELSE "_"
        spaced == IF kept = " " THEN "_" ELSE kept
    IN lower(spaced)

_sanitize_name(name) == [i \in 1..Len(name) |-> _sanitize_char(name[i])]

----------------------------------------------------------------------------
(* Inputs of the repository operations *)

\* knowledge base names as callers give them
KbNames == {<<"K", "b">>, <<"k", "b">>}

DocIds == {"d1"}

\* uuid.uuid4() and datetime.now().isoformat()
Uuids == {"u1", "u2"}
Timestamps == {"t1"}

Descriptions == {"desc"}
Owners == {"owner"}

\* the step of create_kb at which an I/O error is raised
CreateFailPoints == {"none", "mkdir", "kb_info", "commit"}

\* the step of the git add/commit block at which git raises
CommitFailPoints == {"none", "add", "commit"}

\* directories already made when mkdir raises part-way through the loop
MkdirFailPrefix == 5

----------------------------------------------------------------------------
(* KnowledgeBaseRepository.create_kb *)

\* the list with its last entry forgotten
directories_without_index ==
    << <<"raw">>, <<"processed">>, <<"metadata">>, <<"citations">>,
       <<"chunks", "text">>, <<"chunks", "metadata">>, <<"vectors">>,
       <<"workflows">>, <<"pdfs">>, <<"documentation", "processes">>,
       <<"documentation", "maps">>, <<"documentation", "guides">> >>

\* the fixed subdirectory list of create_kb
directories ==
    << <<"raw">>, <<"processed">>, <<"metadata">>, <<"citations">>,
       <<"chunks", "text">>, <<"chunks", "metadata">>, <<"vectors">>,
       <<"workflows">>, <<"pdfs">>, <<"documentation", "processes">>,
       <<"documentation", "maps">>, <<"documentation", "guides">>,
       <<"index">> >>

\* for directory in directories: (kb_path / directory).mkdir(parents=True)
\* stopped after the first n directories
MkdirFirst(ds, kb, n) ==
    ds \cup UNION {MkdirP({}, kb, directories[i]) : i \in 1..n}

KbInfoPath(kb) == Path(kb, <<>>, <<"kb_info.json">>)
ReadmePath(kb) == Path(kb, <<>>, <<"README.md">>)
GitignorePath(kb) == Path(kb, <<>>, <<".gitignore">>)
GitDir(kb) == <<kb, <<".git">>>>

\* an existence test on kb_info.json instead of the directory
kb_path_exists_by_info(w, kb) ==
    Path(kb, <<>>, <<"kb_info.json">>) \in DOMAIN w.files

\* if kb_path.exists(): raise ValueError(... already exists)
kb_path_exists(w, kb) == <<kb, <<>>>> \in w.dirs

\* repo.git.add(all=True): the index becomes the working tree of kb
GitAddAll(w, kb) ==
    [p \in {q \in DOMAIN w.index : q.kb # kb} \cup FilesOf(w.files, kb) |->
        IF p.kb = kb THEN w.files[p] ELSE w.index[p]]

\* repo.git.add(path) of one file: stages the file's content
GitAdd(idx, fs, p) == WriteFile(idx, p, fs[p])

\* repo.git.add(directory): stages every file below the directory
GitAddDir(idx, fs, kb, dir) ==
    LET below == {p \in DOMAIN fs : p.kb = kb /\ p.dir = dir}
    IN [p \in (DOMAIN idx) \cup below |-> IF p \in below THEN fs[p] ELSE idx[p]]

\* a commit that is skipped when the index equals the tree of HEAD
IndexCommit_unless_unchanged(lg, idx, kb, msg) ==
    LET tree == [x \in {p \in DOMAIN idx : p.kb = kb} |-> idx[x]]
    IN IF lg[kb] # <<>> /\ lg[kb][Len(lg[kb])].tree = tree
       THEN lg
       ELSE [lg EXCEPT ![kb] = Append(@, [msg |-> msg, tree |-> tree])]

\* repo.index.commit(message): a commit of the index, also when nothing changed
IndexCommit(lg, idx, kb, msg) ==
    [lg EXCEPT ![kb] = Append(@, [msg |-> msg, tree |-> Restrict(idx, FilesOf(idx, kb))])]

readme_content(kb, description, owner, ts) ==
    [readme |-> kb, description |-> description, created |-> ts, owner |-> owner]

kb_metadata(kb, description, owner, ts, uuid) ==
    [name |-> kb, description |-> description, created_at |-> ts,
     owner |-> owner, metadata |-> <<>>, uuid |-> uuid]

gitignore_content == [gitignore |-> <<"*.tmp", "*.temp", ".DS_Store", "*.zip", "*.gz", "*.tar">>]

create_kb(w, name, description, owner, ts, uuid, failAt) ==
    LET kb == _sanitize_name(name)
        w1 == [w EXCEPT !.dirs = MkdirFirst(@, kb, Len(directories))]
        w1f == [w EXCEPT !.dirs = MkdirFirst(@, kb, MkdirFailPrefix)]
        w2 == [w1 EXCEPT !.dirs = @ \cup {GitDir(kb)}]
        w3 == [w2 EXCEPT !.files = WriteFile(@, ReadmePath(kb),
                                    readme_content(kb, description, owner, ts))]
        w4 == [w3 EXCEPT !.files = WriteFile(@, KbInfoPath(kb),
                                    kb_metadata(kb, description, owner, ts, uuid))]
        w5 == [w4 EXCEPT !.files = WriteFile(@, GitignorePath(kb), gitignore_content)]
        w6 == [w5 EXCEPT !.index = GitAddAll(w5, kb)]
        w7 == [w6 EXCEPT !.log = IndexCommit(@, w6.index, kb, "Initialize")]
    IN IF kb_path_exists(w, kb)
       THEN [w |-> w, result |-> Err("AlreadyExists"), commit |-> "none"]
       ELSE CASE failAt = "mkdir" -> [w |-> w1f, result |-> Err("IOFailure"), commit |-> "none"]
              [] failAt = "init" -> [w |-> w1, result |-> Err("IOFailure"), commit |-> "none"]
              [] failAt = "readme" -> [w |-> w2, result |-> Err("IOFailure"), commit |-> "none"]
              [] failAt = "kb_info" -> [w |-> w3, result |-> Err("IOFailure"), commit |-> "none"]
              [] failAt = "gitignore" -> [w |-> w4, result |-> Err("IOFailure"), commit |-> "none"]
              [] failAt = "commit" -> [w |-> w6, result |-> Err("VCSCommitFailure"), commit |-> "failed"]
              [] OTHER -> [w |-> w7, result |-> Ok(<<kb, <<>>>>), commit |-> "ok"]

----------------------------------------------------------------------------
(* KnowledgeBaseRepository.get_kb *)

\* a lookup that only tests the directory
get_kb_found_by_dir(w, kb_name) == <<kb_name, <<>>>> \in w.dirs

\* not (not kb_path.exists() or not (kb_path / "kb_info.json").exists())
get_kb_found(w, kb_name) ==
    /\ <<kb_name, <<>>>> \in w.dirs
    /\ KbInfoPath(kb_name) \in DOMAIN w.files

\* "repo": git.Repo(kb_path) if (kb_path / ".git").exists() else None
get_kb_repo(w, kb_name) == GitDir(kb_name) \in w.dirs

----------------------------------------------------------------------------
(* KnowledgeBaseRepository.add_document *)

\* metadata envelopes handed to add_document
Metadatas ==
    { [content_type |-> "code", title |-> "T"],
      [content_type |-> "pdf", title |-> "T"] }

\* citation argument: None, or a citation record
NoCitation == [none |-> TRUE]
Citations == {NoCitation, [doc_title |-> "T", sections |-> <<>>]}

\* the processed file handed to add_document: absent, or one of two contents
NoSource == [missing |-> TRUE]
Sources == {NoSource, [text |-> "p1"]}

\* the if/elif chain on content_type
dest_dir(content_type) ==
    CASE content_type = "code" -> <<"processed", "code">>
      [] content_type = "markdown" -> <<"processed", "markdown">>
      [] content_type = "pdf" -> <<"processed", "documents">>
      [] OTHER -> <<"processed", "other">>

dest_path(kb, doc_id, content_type) == Path(kb, dest_dir(content_type), <<doc_id, "md">>)
MetadataPath(kb, doc_id) == Path(kb, <<"metadata">>, <<doc_id, "json">>)
CitationPath(kb, doc_id) == Path(kb, <<"citations">>, <<doc_id, "citation.json">>)
PdfPath(kb, doc_id) == Path(kb, <<"pdfs">>, <<doc_id, "txt">>)

pdf_placeholder(doc_id, source_path) == [pdf_of |-> doc_id, source |-> source_path]

\* _generate_citation_pdf: mkdir pdfs, write the placeholder
_generate_citation_pdf(w, kb, doc_id, source_path) ==
    [w EXCEPT !.dirs = MkdirP(@, kb, <<"pdfs">>),
              !.files = WriteFile(@, PdfPath(kb, doc_id), pdf_placeholder(doc_id, source_path))]

\* a failure handler that restores the working tree
CommitFailed_rollback(written, before, idx, value) ==
    [w |-> before, result |-> Ok(value), commit |-> "failed"]

\* what the except branch of the git block leaves of an operation whose
\* files are written: the working tree is kept, the normal value returned
CommitFailed(written, before, idx, value) ==
    [w |-> [written EXCEPT !.index = idx], result |-> Ok(value), commit |-> "failed"]

\* the git add calls of add_document, in order
add_document_stage(w, kb, doc_id, content_type, citation) ==
    LET i1 == GitAdd(w.index, w.files, dest_path(kb, doc_id, content_type))
        i2 == GitAdd(i1, w.files, MetadataPath(kb, doc_id))
    IN IF citation # NoCitation THEN GitAdd(i2, w.files, CitationPath(kb, doc_id)) ELSE i2

add_document(w, kb_name, doc_id, src, metadata, citation, gitFail) ==
    LET content_type == Get(metadata, "content_type", "unknown")
        dst == dest_path(kb_name, doc_id, content_type)
        w1 == [w EXCEPT !.dirs = MkdirP(@, kb_name, dest_dir(content_type)),
                        !.files = WriteFile(@, dst, src)]
        w2 == [w1 EXCEPT !.files = WriteFile(@, MetadataPath(kb_name, doc_id), metadata)]
        w3 == IF citation # NoCitation
              THEN [w2 EXCEPT !.files = WriteFile(@, CitationPath(kb_name, doc_id), citation)]
              ELSE w2
        w4 == IF content_type # "pdf"
              THEN _generate_citation_pdf(w3, kb_name, doc_id, dst)
              ELSE w3
        staged == add_document_stage(w4, kb_name, doc_id, content_type, citation)
    IN CASE ~get_kb_found(w, kb_name) ->
              [w |-> w, result |-> Err("NotFound"), commit |-> "none"]
         [] get_kb_found(w, kb_name) /\ src = NoSource ->
              [w |-> w, result |-> Err("ValueError"), commit |-> "none"]
         [] get_kb_found(w, kb_name) /\ src # NoSource
              /\ <<kb_name, <<"metadata">>>> \notin w1.dirs ->
              [w |-> w1, result |-> Err("IOFailure"), commit |-> "none"]
         [] get_kb_found(w, kb_name) /\ src # NoSource
              /\ <<kb_name, <<"metadata">>>> \in w1.dirs
              /\ citation # NoCitation /\ <<kb_name, <<"citations">>>> \notin w2.dirs ->
              [w |-> w2, result |-> Err("IOFailure"), commit |-> "none"]
         [] OTHER ->
              IF ~get_kb_repo(w, kb_name)
              THEN [w |-> w4, result |-> Ok(dst), commit |-> "none"]
              ELSE CASE gitFail = "add" -> CommitFailed(w4, w, w4.index, dst)
                     [] gitFail = "commit" -> CommitFailed(w4, w, staged, dst)
                     [] OTHER ->
                          [w |-> [w4 EXCEPT !.index = staged,
                                            !.log = IndexCommit(@, staged, kb_name, "Add document")],
                           result |-> Ok(dst), commit |-> "ok"]

----------------------------------------------------------------------------
(* KnowledgeBaseRepository.add_chunks *)

\* (chunks, chunk_metadata) argument pairs; the last has fewer metadata
\* records than chunks (generate_chunk_citations returned [])
ChunkInputs ==
    { [chunks |-> <<[text |-> "x"]>>, meta |-> <<[cite |-> "x"]>>],
      [chunks |-> <<[text |-> "x"], [text |-> "y"]>>,
       meta |-> <<[cite |-> "x"], [cite |-> "y"]>>],
      [chunks |-> <<[text |-> "y"]>>, meta |-> <<>>] }

chunks_text_dir == <<"chunks", "text">>
chunks_metadata_dir == <<"chunks", "metadata">>

\* a chunk numbering that counts from 1
chunk_id_from_one(doc_id, i) == <<doc_id, "chunk", i + 1>>

\* chunk_id = f"{doc_id}_chunk_{i}", i counted from 0
chunk_id(doc_id, i) == <<doc_id, "chunk", i>>
ChunkTextPath(kb, doc_id, i) == Path(kb, chunks_text_dir, <<doc_id, "chunk", i, "txt">>)
ChunkMetaPath(kb, doc_id, i) == Path(kb, chunks_metadata_dir, <<doc_id, "chunk", i, "json">>)

Min(a, b) == IF a < b THEN a ELSE b

\* enumerate(zip(chunks, chunk_metadata)): the number of pairs
zip_len(chunks, chunk_metadata) == Min(Len(chunks), Len(chunk_metadata))

\* the chunk_files list built by the loop
chunk_files(kb, doc_id, n) ==
    [j \in 1..n |-> [chunk_id |-> chunk_id(doc_id, j - 1),
                     text_path |-> ChunkTextPath(kb, doc_id, j - 1),
                     metadata_path |-> ChunkMetaPath(kb, doc_id, j - 1)]]

\* the files written by the loop over the first n pairs
WriteChunks(fs, kb, doc_id, chunks, chunk_metadata, n) ==
    LET texts == {ChunkTextPath(kb, doc_id, j - 1) : j \in 1..n}
        metas == {ChunkMetaPath(kb, doc_id, j - 1) : j \in 1..n}
    IN [p \in (DOMAIN fs) \cup texts \cup metas |->
          IF p \in texts THEN chunks[p.name[3] + 1]
          ELSE IF p \in metas THEN chunk_metadata[p.name[3] + 1]
          ELSE fs[p]]

add_chunks(w, kb_name, doc_id, chunks, chunk_metadata, gitFail) ==
    LET n == zip_len(chunks, chunk_metadata)
        refs == chunk_files(kb_name, doc_id, n)
        w1 == [w EXCEPT !.dirs = MkdirP(MkdirP(@, kb_name, chunks_text_dir),
                                        kb_name, chunks_metadata_dir)]
        w2 == [w1 EXCEPT !.files = WriteChunks(@, kb_name, doc_id, chunks, chunk_metadata, n)]
        metadata_path == MetadataPath(kb_name, doc_id)
        has_metadata == metadata_path \in DOMAIN w2.files
        w3 == IF has_metadata
              THEN [w2 EXCEPT !.files = WriteFile(@, metadata_path,
                                           Put(w2.files[metadata_path], "chunks", refs))]
              ELSE w2
        i2 == GitAddDir(GitAddDir(w3.index, w3.files, kb_name, chunks_text_dir),
                        w3.files, kb_name, chunks_metadata_dir)
        staged == IF has_metadata THEN GitAdd(i2, w3.files, metadata_path) ELSE i2
    IN IF ~get_kb_found(w, kb_name)
       THEN [w |-> w, result |-> Err("NotFound"), commit |-> "none"]
       ELSE IF ~get_kb_repo(w, kb_name)
       THEN [w |-> w3, result |-> Ok(refs), commit |-> "none"]
       ELSE CASE gitFail = "add" -> CommitFailed(w3, w, w3.index, refs)
              \* git add of a metadata path that does not exist raises
              [] gitFail # "add" /\ (gitFail = "commit" \/ ~has_metadata) ->
                   CommitFailed(w3, w, staged, refs)
              [] OTHER ->
                   [w |-> [w3 EXCEPT !.index = staged,
                                     !.log = IndexCommit(@, staged, kb_name, "Add chunks")],
                    result |-> Ok(refs), commit |-> "ok"]

----------------------------------------------------------------------------
(* KnowledgeBaseRepository.clone_kb *)

\* a directory tree outside the knowledge bases: directories and files
\* relative to its root
TreeOf(dir_set, fs, kb) ==
    [dirs |-> dir_set,
     files |-> [q \in {[dir |-> p.dir, name |-> p.name] : p \in FilesOf(fs, kb)} |->
                   fs[Path(kb, q.dir, q.name)]]]

\* git.Repo.clone_from(kb_path, destination_path): the checkout of HEAD,
\* which holds the committed files and the directories they lie in
clone_from(w, kb) ==
    LET tree == IF w.log[kb] = <<>> THEN Restrict(w.files, {}) ELSE w.log[kb][Len(w.log[kb])].tree
    IN TreeOf({<<>>, <<".git">>}
                 \cup UNION {{SubSeq(p.dir, 1, n) : n \in 0..Len(p.dir)} : p \in DOMAIN tree},
              tree, kb)

\* shutil.copytree(kb_path, destination_path)
copytree(w, kb) == TreeOf({d[2] : d \in {x \in w.dirs : x[1] = kb}}, w.files, kb)

\* dest_exists: whether destination / kb_name exists
clone_kb(w, kb_name, dest_exists) ==
    IF ~get_kb_found(w, kb_name)
    THEN [w |-> w, result |-> Err("NotFound"), commit |-> "none"]
    ELSE IF dest_exists
    THEN [w |-> w, result |-> Err("ValueError"), commit |-> "none"]
    ELSE IF get_kb_repo(w, kb_name)
    THEN [w |-> w, result |-> Ok(clone_from(w, kb_name)), commit |-> "none"]
    ELSE [w |-> w, result |-> Ok(copytree(w, kb_name)), commit |-> "none"]

----------------------------------------------------------------------------
(* KnowledgeBaseRepository.update_documentation *)

DocTypes == {"process", "map", "guide", "other"}
DocNames == {<<"A", " ">>}
DocContents == {[text |-> "doc1"]}

\* the if/elif chain on doc_type
doc_dir(doc_type) ==
    CASE doc_type = "process" -> <<"documentation", "processes">>
      [] doc_type = "map" -> <<"documentation", "maps">>
      [] OTHER -> <<"documentation", "guides">>

DocumentationPath(kb, doc_type, name) ==
    Path(kb, doc_dir(doc_type), <<"doc", _sanitize_name(name), "md">>)

update_documentation(w, kb_name, doc_type, name, content, gitFail) ==
    LET file_path == DocumentationPath(kb_name, doc_type, name)
        w1 == [w EXCEPT !.dirs = MkdirP(@, kb_name, doc_dir(doc_type)),
                        !.files = WriteFile(@, file_path, content)]
        staged == GitAdd(w1.index, w1.files, file_path)
    IN IF ~get_kb_found(w, kb_name)
       THEN [w |-> w, result |-> Err("NotFound"), commit |-> "none"]
       ELSE IF doc_type \notin {"process", "map", "guide"}
       THEN [w |-> w, result |-> Err("ValueError"), commit |-> "none"]
       ELSE IF ~get_kb_repo(w, kb_name)
       THEN [w |-> w1, result |-> Ok(file_path), commit |-> "none"]
       ELSE CASE gitFail = "add" -> CommitFailed(w1, w, w1.index, file_path)
              [] gitFail = "commit" -> CommitFailed(w1, w, staged, file_path)
              [] OTHER ->
                   [w |-> [w1 EXCEPT !.index = staged,
                                     !.log = IndexCommit(@, staged, kb_name, "Update documentation")],
                    result |-> Ok(file_path), commit |-> "ok"]

----------------------------------------------------------------------------
(* CitationProcessor: section extraction                                   *)
(*                                                                         *)
(* A source line is the record [k, level, name]: k = "h" a markdown        *)
(* heading of that level and title, "class" / "def" a declaration of that  *)
(* name, "mention" a line that only mentions a declaration, "text" any     *)
(* other line (level 0).  A text is a sequence of lines;                   *)
(* ''.join(lines) is the sequence itself and `chunk in content` is         *)
(* contiguous containment.                                                 *)

\* lines of a document
MaxLines == 3
\* chunks handed to one generate_chunk_citations call
MaxChunks == 2

TextLine(t) == [k |-> "text", level |-> 0, name |-> t]
Heading(level, name) == [k |-> "h", level |-> level, name |-> name]
Decl(kind, name) == [k |-> kind, level |-> 0, name |-> name]

MarkdownLines == {Heading(1, "A"), Heading(2, "B"), TextLine("x"), TextLine("y")}
\* a line that is no declaration and contains the text "def name("
Mention(name) == [k |-> "mention", level |-> 0, name |-> name]

CodeLines ==
    {Decl("class", "A"), Decl("def", "foo"), Decl("def", "bar"), TextLine("x"), Mention("baz")}

SeqsUpTo(S, n) == UNION {[1..m -> S] : m \in 0..n}

\* file_path.stem
Stem == "doc"

\* hashlib.md5(content).hexdigest(): a digest that identifies the content
_hash_content(content) == [md5 |-> content]

\* re.search(r'^\s*class\s+(\w+)', line) / re.match(r'^\s*class\s+', line)
IsClassLine(line) == line.k = "class"
\* re.search(r'^\s*def\s+(\w+)', line) / re.match(r'^\s*def\s+', line)
IsDefLine(line) == line.k = "def"
\* re.match(r'^(#{1,6})\s+(.*?)(?:\s+#{1,6})?$', line)
IsHeaderLine(line) == line.k = "h"

\* the inner loop's test: a class section ends at the next class line, a
\* function section at the next def or class line
EndsSection(type, line) ==
    IF type = "class" THEN IsClassLine(line)
    ELSE IsDefLine(line) \/ IsClassLine(line)

\* an end_line that is the line of the next declaration itself
CodeEndLine_at_stop(code_lines, i, type) ==
    LET stops == {j \in (i + 1)..Len(code_lines) : EndsSection(type, code_lines[j])}
    IN IF stops = {} THEN Len(code_lines)
       ELSE CHOOSE j \in stops : \A j2 \in stops : j <= j2

\* the inner loop: end_line for the declaration at 1-based line i, the
\* 0-based index of the first later line that ends it, or len(code_lines)
CodeEndLine(code_lines, i, type) ==
    LET stops == {j \in (i + 1)..Len(code_lines) : EndsSection(type, code_lines[j])}
    IN IF stops = {} THEN Len(code_lines)
       ELSE (CHOOSE j \in stops : \A j2 \in stops : j <= j2) - 1

CodeSection(code_lines, i, type) ==
    LET end_line == CodeEndLine(code_lines, i, type)
    IN [type |-> type, name |-> code_lines[i].name,
        start_line |-> i, end_line |-> end_line,
        content_hash |-> _hash_content(SubSeq(code_lines, i, end_line)),
        citation_key |-> [stem |-> Stem, kind |-> type, name |-> code_lines[i].name]]

\* the "Find classes" loop from 1-based line i on
RECURSIVE ClassSections(_, _)
ClassSections(code_lines, i) ==
    IF i > Len(code_lines) THEN <<>>
    ELSE (IF IsClassLine(code_lines[i])
          THEN <<CodeSection(code_lines, i, "class")>> ELSE <<>>)
         \o ClassSections(code_lines, i + 1)

\* the "Find functions" loop from 1-based line i on
RECURSIVE FunctionSections(_, _)
FunctionSections(code_lines, i) ==
    IF i > Len(code_lines) THEN <<>>
    ELSE (IF IsDefLine(code_lines[i])
          THEN <<CodeSection(code_lines, i, "function")>> ELSE <<>>)
         \o FunctionSections(code_lines, i + 1)

FileSection(lines) ==
    [type |-> "file", name |-> Stem, start_line |-> 1, end_line |-> Len(lines),
     content_hash |-> _hash_content(lines), citation_key |-> [stem |-> Stem]]

_process_code_sections(code_lines) ==
    LET sections == ClassSections(code_lines, 1) \o FunctionSections(code_lines, 1)
    IN IF sections = <<>> THEN <<FileSection(code_lines)>> ELSE sections

\* a close that records the line after the section as its end
CloseSection_next_line(cur, end_line, with_key) ==
    Put(Put(cur, "end_line", end_line + 1), "content_hash", _hash_content(cur.lines))

\* current_section with end_line, content_hash (and citation_key when the
\* section is closed by a following heading) set, as appended to sections
CloseSection(cur, end_line, with_key) ==
    LET c1 == Put(Put(cur, "end_line", end_line),
                  "content_hash", _hash_content(cur.lines))
    IN IF with_key
       THEN Put(c1, "citation_key", [stem |-> Stem, level |-> cur.level, name |-> cur.name])
       ELSE c1

\* the loop of _process_markdown_sections from 1-based line n on;
\* st = [sections, cur]
RECURSIVE MarkdownLoop(_, _, _)
MarkdownLoop(md_lines, n, st) ==
    IF n > Len(md_lines) THEN st
    ELSE LET line == md_lines[n]
             saved == IF st.cur.lines # <<>>
                      THEN Append(st.sections, CloseSection(st.cur, n - 1, TRUE))
                      ELSE st.sections
             next == IF IsHeaderLine(line)
                     THEN [sections |-> saved,
                           cur |-> [type |-> "header", level |-> line.level,
                                    name |-> line.name, start_line |-> n,
                                    lines |-> <<line>>,
                                    citation_key |-> [stem |-> Stem, level |-> line.level,
                                                      name |-> line.name]]]
                     ELSE [st EXCEPT !.cur.lines = Append(@, line)]
         IN MarkdownLoop(md_lines, n + 1, next)

_process_markdown_sections(md_lines) ==
    LET start == [sections |-> <<>>,
                  cur |-> [type |-> "header", level |-> 0, name |-> Stem,
                           start_line |-> 1, lines |-> <<>>]]
        st == MarkdownLoop(md_lines, 1, start)
        sections == IF st.cur.lines # <<>>
                    THEN Append(st.sections, CloseSection(st.cur, Len(md_lines), FALSE))
                    ELSE st.sections
    IN IF sections = <<>> THEN <<FileSection(md_lines)>> ELSE sections

\* pages: the number of entries of metadata["pages"], or -1 without the key
_process_pdf_sections(metadata) ==
    IF "pages" \in DOMAIN metadata
    THEN [i \in 1..metadata.pages |->
            [type |-> "page", name |-> <<"Page", i>>, page_number |-> i,
             citation_key |-> [stem |-> Stem, page |-> i]]]
    ELSE <<[type |-> "document", name |-> Stem, citation_key |-> [stem |-> Stem]]>>

\* readable: whether open/read of the file succeeds
_process_generic_sections(lines, readable) ==
    IF readable
    THEN <<[type |-> "file", name |-> Stem, content_hash |-> _hash_content(lines),
            citation_key |-> [stem |-> Stem]]>>
    ELSE <<[type |-> "file", name |-> Stem, citation_key |-> [stem |-> Stem]]>>

----------------------------------------------------------------------------
(* CitationProcessor.process_document and generate_chunk_citations *)

code_extensions == {"py", "js"}
markdown_extensions == {"md"}

_is_code_file(suffix) == suffix \in code_extensions
_is_markdown_file(suffix) == suffix \in markdown_extensions

\* BulkIngestor._determine_content_type
_determine_content_type(suffix) ==
    CASE _is_code_file(suffix) -> "code"
      [] _is_markdown_file(suffix) -> "markdown"
      [] suffix \in {"jpg", "png"} -> "image"
      [] suffix \in {"txt", "csv", "json", "yaml", "yml"} -> "text"
      [] suffix \in {"pdf", "doc", "docx", "ppt", "pptx", "xls", "xlsx"} -> "document"
      [] OTHER -> "other"

\* BulkIngestor._extract_code_metadata for a Python file:
\* re.findall(r'def\s+(\w+)\s*\(', code) finds the text anywhere in a line,
\* re.findall(r'class\s+(\w+)\s*[:(]', code) the class declarations
_extract_code_metadata(suffix, code_lines) ==
    LET defs == SelectSeq(code_lines, LAMBDA l : l.k \in {"def", "mention"})
        classes == SelectSeq(code_lines, LAMBDA l : l.k = "class")
    IN [language |-> suffix, line_count |-> Len(code_lines),
        functions |-> [i \in 1..Len(defs) |-> defs[i].name],
        classes |-> [i \in 1..Len(classes) |-> classes[i].name]]

\* the fields of BulkIngestor._create_metadata that the citation code reads;
\* pages >= 0 adds a "pages" entry of that length
_create_metadata(suffix, pages) ==
    LET m == [title |-> Stem, file_type |-> suffix,
              content_type |-> _determine_content_type(suffix), version |-> "1.0"]
    IN IF pages >= 0 THEN Put(m, "pages", pages) ELSE m

_get_citation_format(metadata) ==
    LET content_type == Get(metadata, "content_type", "unknown")
    IN CASE content_type = "code" -> "code"
         [] content_type = "markdown" -> "markdown"
         [] content_type \notin {"code", "markdown"}
              /\ Get(metadata, "file_type", "") = "pdf" -> "pdf"
         [] OTHER -> "generic"

\* the citation record of process_document (the path, timestamp and file
\* type entries, which no later code reads, are left out)
process_document(doc, doc_id, metadata) ==
    [doc_id |-> doc_id,
     title |-> Get(metadata, "title", Stem),
     content_type |-> Get(metadata, "content_type", "unknown"),
     author |-> Get(metadata, "author", "Unknown"),
     version |-> Get(metadata, "version", "1.0"),
     repository |-> "output_dir",
     citation_format |-> _get_citation_format(metadata),
     sections |->
        CASE _is_code_file(doc.suffix) -> _process_code_sections(doc.lines)
          [] ~_is_code_file(doc.suffix) /\ _is_markdown_file(doc.suffix) ->
               _process_markdown_sections(doc.lines)
          [] ~_is_code_file(doc.suffix) /\ ~_is_markdown_file(doc.suffix)
               /\ Get(metadata, "file_type", "") = "pdf" ->
               _process_pdf_sections(metadata)
          [] OTHER -> _process_generic_sections(doc.lines, doc.readable)]

\* chunk in section_content
IsSubstring(chunk, content) ==
    \E i \in 0..(Len(content) - Len(chunk)) :
        SubSeq(content, i + 1, i + Len(chunk)) = chunk

_is_content_subset(chunk, section) ==
    IF "lines" \in DOMAIN section THEN IsSubstring(chunk, section.lines) ELSE FALSE

\* the sections for which the loop of _find_chunk_sections builds a record
Matches(chunk, sections) ==
    {i \in 1..Len(sections) :
        "content_hash" \in DOMAIN sections[i] /\ _is_content_subset(chunk, sections[i])}

\* section["type"], section["name"], section["citation_key"] of a matching
\* section: a missing key raises KeyError
FindRaises(chunk, sections) ==
    \E i \in Matches(chunk, sections) :
        {"type", "name", "citation_key"} \ DOMAIN sections[i] # {}

matching_section(section) ==
    LET m0 == [type |-> section.type, name |-> section.name,
               citation_key |-> section.citation_key]
        m1 == IF "start_line" \in DOMAIN section
              THEN Put(m0, "start_line", section.start_line) ELSE m0
    IN IF "end_line" \in DOMAIN section THEN Put(m1, "end_line", section.end_line) ELSE m1

RECURSIVE MatchingFrom(_, _, _)
MatchingFrom(chunk, sections, i) ==
    IF i > Len(sections) THEN <<>>
    ELSE (IF i \in Matches(chunk, sections)
          THEN <<matching_section(sections[i])>> ELSE <<>>)
         \o MatchingFrom(chunk, sections, i + 1)

\* defined when ~FindRaises(chunk, sections)
_find_chunk_sections(chunk, sections) ==
    LET matching_sections == MatchingFrom(chunk, sections, 1)
    IN IF matching_sections = <<>> /\ sections # <<>>
       THEN <<[type |-> "document",
               name |-> Get(sections[1], "name", "Unknown"),
               citation_key |-> Get(sections[1], "citation_key", "unknown")]>>
       ELSE matching_sections

\* a title part that ignores the citation's title
TitlePart_default(citation, default) == [part |-> "title", text |-> default]

\* ", ".join(parts): the text is kept as the list of its parts
TitlePart(citation, default) == [part |-> "title", text |-> Get(citation, "title", default)]
VersionPart(citation) == [part |-> "Version", text |-> Get(citation, "version", "1.0")]
AuthorParts(citation) ==
    IF Get(citation, "author", "Unknown") # "Unknown"
    THEN <<[part |-> "by", text |-> citation.author]>> ELSE <<>>

_format_code_citation(citation, sections) ==
    LET section == sections[1]
    IN <<TitlePart(citation, "Unknown")>>
       \o (CASE section.type = "class" -> <<[part |-> "Class", text |-> section.name]>>
             [] section.type = "function" -> <<[part |-> "Function", text |-> section.name]>>
             [] OTHER -> <<>>)
       \o (IF {"start_line", "end_line"} \subseteq DOMAIN section
           THEN <<[part |-> "Lines", from |-> section.start_line, to |-> section.end_line]>>
           ELSE <<>>)
       \o <<VersionPart(citation)>>

_format_markdown_citation(citation, sections) ==
    LET section == sections[1]
    IN <<TitlePart(citation, "Unknown")>>
       \o (IF section.type = "header"
           THEN <<[part |-> "header", hashes |-> Get(section, "level", 1),
                   text |-> section.name]>>
           ELSE <<>>)
       \o AuthorParts(citation)
       \o <<VersionPart(citation)>>

_format_pdf_citation(citation, sections) ==
    LET section == sections[1]
    IN <<TitlePart(citation, "Unknown")>>
       \o AuthorParts(citation)
       \o (IF section.type = "page" /\ "page_number" \in DOMAIN section
           THEN <<[part |-> "Page", number |-> section.page_number]>> ELSE <<>>)

_format_generic_citation(citation, sections) ==
    <<TitlePart(citation, "Unknown")>> \o AuthorParts(citation) \o <<VersionPart(citation)>>

\* section["type"] and section['name'] of the first section: a missing key
\* raises KeyError
_format_citation_raises(citation, sections) ==
    /\ sections # <<>>
    /\ Get(citation, "citation_format", "") \in {"code", "markdown", "pdf"}
    /\ \/ "type" \notin DOMAIN sections[1]
       \/ /\ "name" \notin DOMAIN sections[1]
          /\ \/ /\ Get(citation, "citation_format", "") = "code"
                /\ sections[1].type \in {"class", "function"}
             \/ /\ Get(citation, "citation_format", "") = "markdown"
                /\ sections[1].type = "header"

_format_citation(citation, sections) ==
    IF sections = <<>>
    THEN <<TitlePart(citation, "Unknown Document"),
           [part |-> "(version)", text |-> Get(citation, "version", "1.0")]>>
    ELSE CASE Get(citation, "citation_format", "") = "code" ->
                _format_code_citation(citation, sections)
           [] Get(citation, "citation_format", "") = "markdown" ->
                _format_markdown_citation(citation, sections)
           [] Get(citation, "citation_format", "") = "pdf" ->
                _format_pdf_citation(citation, sections)
           [] OTHER -> _format_generic_citation(citation, sections)

chunk_citation(citation, doc_id, i, chunk) ==
    LET sections == _find_chunk_sections(chunk, citation.sections)
    IN [chunk_id |-> <<doc_id, "chunk", i>>,
        doc_id |-> doc_id,
        title |-> Get(citation, "title", "Unknown"),
        author |-> Get(citation, "author", "Unknown"),
        version |-> Get(citation, "version", "1.0"),
        sections |-> sections,
        citation_text |-> _format_citation(citation, sections),
        repository_link |-> <<citation.repository, "processed", doc_id, "md">>]

\* cfiles: the citation files by doc_id.  The loop raises at the first chunk
\* for which _find_chunk_sections raises.
generate_chunk_citations(cfiles, chunks, doc_id) ==
    IF doc_id \notin DOMAIN cfiles THEN Ok(<<>>)
    ELSE LET citation == cfiles[doc_id]
         IN IF \E i \in 1..Len(chunks) : FindRaises(chunks[i], citation.sections)
            THEN Err("KeyError")
            ELSE Ok([i \in 1..Len(chunks) |->
                        chunk_citation(citation, doc_id, i - 1, chunks[i])])

----------------------------------------------------------------------------
(* BulkIngestor: __init__, process_file, process_directory                 *)
(*                                                                         *)
(* The output directory of the ingestor is a directory of its own with its *)
(* own git repository (self.repo); it is addressed like a knowledge base   *)
(* directory, under the name OutputDir.                                    *)

\* files enumerated by one process_directory call
MaxFiles == 2
\* process_directory calls in one run
MaxBatches == 1

OutputDir == <<"o", "u", "t">>

\* the files os.walk can enumerate: [hidden, suffix, lines, fail];
\* fail = "copy": shutil.copy2 of the file raises
InputFiles ==
    { [hidden |-> FALSE, suffix |-> "md", lines |-> <<TextLine("x")>>, fail |-> "none"],
      [hidden |-> FALSE, suffix |-> "md", lines |-> <<TextLine("x")>>, fail |-> "copy"],
      [hidden |-> TRUE, suffix |-> "md", lines |-> <<>>, fail |-> "none"] }

\* _generate_doc_id: md5 of path and timestamp, a fresh id for every call;
\* the id of the i-th file of the b-th batch
DocIdTable ==
    << <<"d11", "d12", "d13">>, <<"d21", "d22", "d23">>, <<"d31", "d32", "d33">> >>
_generate_doc_id(b, i) == DocIdTable[b][i]

\* BulkIngestor.__init__ with output_dir = OutputDir
BulkIngestorInit(w, kb_name, ts, uuid) ==
    LET w0 == [w EXCEPT !.dirs = MkdirP(@, OutputDir, <<"citations">>)]
        created == create_kb(w0, kb_name, "desc", "bulk_ingestor", ts, uuid, "none")
        w1 == IF get_kb_found(w0, kb_name) THEN w0 ELSE created.w
        w2 == [w1 EXCEPT !.dirs =
                  MkdirP(MkdirP(MkdirP(MkdirP(MkdirP(@,
                      OutputDir, <<"raw">>), OutputDir, <<"processed">>),
                      OutputDir, <<"metadata">>), OutputDir, <<"text">>),
                      OutputDir, <<"index">>) \cup {GitDir(OutputDir)}]
    IN IF ~get_kb_found(w0, kb_name) /\ created.result.status # "ok"
       THEN [w |-> w1, result |-> created.result]
       ELSE [w |-> w2, result |-> Ok(kb_name)]

\* the processed Markdown of a file and its plain-text rendering
processed_content(f) == [processed |-> f.suffix, of |-> f.lines]
_convert_to_plain_text(content) == [plain |-> content.of]

\* a test that takes no file for hidden
is_hidden_never(f) == FALSE

\* file_path.name.startswith('.')
is_hidden(f) == f.hidden

\* process_file(file_path): outcome "doc_id" (returned doc_id), "none"
\* (returned None) or "raised".  (The one-element sets make TLC compute the
\* world and the citation handed to add_document once.)
process_file(w, kb_name, f, doc_id) ==
    LET w1 == [w EXCEPT !.dirs = MkdirP(@, OutputDir, <<"raw", doc_id>>)]
        w2 == [w1 EXCEPT !.files =
                  WriteFile(@, Path(OutputDir, <<"raw", doc_id>>, <<"file", f.suffix>>),
                            [raw |-> f.lines])]
        metadata == _create_metadata(f.suffix, -1)
        w3 == [w2 EXCEPT !.files =
                  WriteFile(@, Path(OutputDir, <<"metadata">>, <<doc_id, "json">>), metadata)]
        w4 == [w3 EXCEPT !.files =
                  WriteFile(WriteFile(@,
                      Path(OutputDir, <<"processed">>, <<doc_id, "md">>),
                      processed_content(f)),
                      Path(OutputDir, <<"text">>, <<doc_id, "txt">>),
                      _convert_to_plain_text(processed_content(f)))]
        citation == process_document([suffix |-> f.suffix, lines |-> f.lines,
                                      readable |-> TRUE], doc_id, metadata)
        w5(c) == [w4 EXCEPT !.files =
                     WriteFile(@, Path(OutputDir, <<"citations">>, <<doc_id, "citation.json">>),
                               c)]
    IN CASE is_hidden(f) -> [w |-> w, outcome |-> "none"]
         [] ~is_hidden(f) /\ f.fail = "copy" -> [w |-> w1, outcome |-> "raised"]
         [] OTHER ->
              CHOOSE r \in
                  { [w |-> added.w,
                     outcome |-> IF added.result.status = "ok" THEN "doc_id" ELSE "raised"] :
                    added \in { add_document(w5c, kb_name, doc_id, processed_content(f),
                                             m, c, "none") :
                                <<w5c, m, c>> \in
                                    { <<w5(c0), metadata, c0>> : c0 \in {citation} } } } :
                  TRUE

\* a handler that lets the exception end the loop
ExceptReraises_always(st) == TRUE

\* except Exception as e: print(...): the exception is not raised again, the
\* loop goes on with the next file
ExceptReraises(st) == FALSE

\* the "Process each file" loop from the i-th file on;
\* st = [w, processed_files, calls, stopped]
RECURSIVE ProcessLoop(_, _, _, _, _)
ProcessLoop(kb_name, b, all_files, i, st) ==
    IF i > Len(all_files) \/ st.stopped THEN st
    ELSE LET doc_id == _generate_doc_id(b, i)
             step(r) == [w |-> r.w,
                         processed_files |-> IF r.outcome = "doc_id"
                                             THEN Append(st.processed_files, doc_id)
                                             ELSE st.processed_files,
                         calls |-> Append(st.calls, i),
                         stopped |-> IF r.outcome = "raised"
                                     THEN ExceptReraises(st) ELSE FALSE]
         IN CHOOSE final \in
                { ProcessLoop(kb_name, b, all_files, i + 1, next) :
                  next \in { step(r) :
                             r \in {process_file(st.w, kb_name, all_files[i], doc_id)} } } :
                TRUE

IndexPath == Path(OutputDir, <<"index">>, <<"document_index.json">>)

\* a count of the enumerated files
document_count_of_all_files(processed_files, all_files) == Len(all_files)

\* "document_count": len(processed_files)
document_count(processed_files, all_files) == Len(processed_files)

\* process_directory(input_dir): exists = the input directory exists,
\* all_files = the files in enumeration order, b = the number of this batch,
\* commitOk = the final _commit_changes succeeds
process_directory(w, kb_name, exists, all_files, b, ts, commitOk) ==
    LET after(st) ==
            LET w1 == [st.w EXCEPT !.files =
                          WriteFile(@, IndexPath,
                                    [last_updated |-> ts,
                                     document_count |->
                                         document_count(st.processed_files, all_files),
                                     documents |-> st.processed_files])]
                w2 == [w1 EXCEPT !.index = GitAddAll(w1, OutputDir)]
                w3 == [w2 EXCEPT !.log = IndexCommit(@, w2.index, OutputDir, "Processed")]
            IN IF st.stopped
               THEN [w |-> st.w, result |-> Err("Exception"), calls |-> st.calls]
               ELSE IF ~commitOk
               THEN [w |-> w1, result |-> Err("VCSCommitFailure"), calls |-> st.calls]
               ELSE [w |-> w3, result |-> Ok(st.processed_files), calls |-> st.calls]
    IN IF ~exists
       THEN [w |-> w, result |-> Err("ValueError"), calls |-> <<>>]
       ELSE CHOOSE r \in
                { after(st) :
                  st \in { ProcessLoop(kb_name, b, all_files, 1,
                                       [w |-> w, processed_files |-> <<>>, calls |-> <<>>,
                                        stopped |-> FALSE]) } } :
                TRUE

----------------------------------------------------------------------------
(* The repository as a state machine: one action per public operation *)

AllKbs == KbNames \cup {_sanitize_name(n) : n \in KbNames} \cup {OutputDir}

World == [dirs |-> dirs, files |-> files, index |-> index, log |-> log]

NoFiles == [p \in {} |-> TRUE]

\* the call op(args) on knowledge base directory kb had outcome r
Apply(r, op, kb, args) ==
    /\ dirs' = r.w.dirs
    /\ files' = r.w.files
    /\ index' = r.w.index
    /\ log' = r.w.log
    /\ ncalls < MaxCalls
    /\ ncalls' = ncalls + 1
    /\ last' = [op |-> op, kb |-> kb, result |-> r.result,
                args |-> IF r.result.status = "ok" THEN args ELSE <<>>,
                commit |-> r.commit,
                repeat |-> /\ last.op = op
                           /\ last.kb = kb
                           /\ last.args = args
                           /\ last.result.status = "ok"]
    /\ clean' = (clean /\ (r.commit = "ok" \/ r.w = World))
    /\ UNCHANGED <<citeVars, ingestVars, workerVars, pureVars>>

CreateKb ==
    \E name \in KbNames, description \in Descriptions, owner \in Owners,
       ts \in Timestamps, uuid \in Uuids, failAt \in CreateFailPoints :
        Apply(create_kb(World, name, description, owner, ts, uuid, failAt),
              "create_kb", _sanitize_name(name), <<>>)

AddDocument ==
    \E kb_name \in KbNames, doc_id \in DocIds, src \in Sources,
       metadata \in Metadatas, citation \in Citations, gitFail \in CommitFailPoints :
        Apply(add_document(World, kb_name, doc_id, src, metadata, citation, gitFail),
                 "add_document", kb_name, <<doc_id, src, metadata, citation>>)

AddChunks ==
    \E kb_name \in KbNames, doc_id \in DocIds, c \in ChunkInputs,
       gitFail \in CommitFailPoints :
        Apply(add_chunks(World, kb_name, doc_id, c.chunks, c.meta, gitFail),
                 "add_chunks", kb_name, <<doc_id, c.chunks, c.meta>>)

UpdateDocumentation ==
    \E kb_name \in KbNames, doc_type \in DocTypes, name \in DocNames,
       content \in DocContents, gitFail \in CommitFailPoints :
        Apply(update_documentation(World, kb_name, doc_type, name, content, gitFail),
                 "update_documentation", kb_name, <<doc_type, name, content>>)

\* clone_kb(kb_name, destination); the destination tree is the result
CloneKb ==
    \E kb_name \in KbNames, dest_exists \in BOOLEAN :
        Apply(clone_kb(World, kb_name, dest_exists), "clone_kb", kb_name, <<dest_exists>>)

NextRepo == CreateKb \/ AddDocument \/ AddChunks \/ UpdateDocumentation


----------------------------------------------------------------------------
(* CitationProcessor as a state machine: the document and the chunk list   *)
(* are inputs drawn by the initial state; the actions apply the methods    *)

PdfPages == {-1, 0, 2}

\* [suffix, lines, readable, pages]
Documents ==
    {[suffix |-> "py", lines |-> l, readable |-> TRUE, pages |-> -1] :
        l \in SeqsUpTo(CodeLines, MaxLines)}
    \cup {[suffix |-> "md", lines |-> l, readable |-> TRUE, pages |-> -1] :
        l \in SeqsUpTo(MarkdownLines, MaxLines)}
    \cup {[suffix |-> "pdf", lines |-> <<>>, readable |-> TRUE, pages |-> n] :
        n \in PdfPages}
    \cup {[suffix |-> "txt", lines |-> <<TextLine("x")>>, readable |-> r, pages |-> -1] :
        r \in BOOLEAN}

\* chunk texts: the empty string, substrings of sections, a foreign text
ChunkTexts ==
    { <<>>, <<TextLine("x")>>, <<Heading(2, "B"), TextLine("x")>>,
      <<Decl("def", "foo")>>, <<TextLine("z")>> }

ChunkLists == SeqsUpTo(ChunkTexts, MaxChunks)

CiteDocId == "d1"

NoCiteCall == [op |-> "none"]

\* process_document(cite_doc, doc_id, metadata): builds and persists the citation
ProcessDocument ==
    /\ citation_files' =
          WriteFile(citation_files, CiteDocId,
                    process_document(cite_doc, CiteDocId,
                                     _create_metadata(cite_doc.suffix, cite_doc.pages)))
    /\ cite_result' = NoCiteCall
    /\ UNCHANGED <<cite_doc, cite_chunks, repoVars, ingestVars, workerVars, pureVars>>

GenerateChunkCitations ==
    /\ cite_result' = [op |-> "generate_chunk_citations",
                       result |-> generate_chunk_citations(citation_files, cite_chunks,
                                                           CiteDocId)]
    /\ cite_result' # cite_result
    /\ UNCHANGED <<cite_doc, cite_chunks, citation_files, repoVars, ingestVars, workerVars, pureVars>>

NextCite == ProcessDocument \/ GenerateChunkCitations

----------------------------------------------------------------------------
(* BulkIngestor as a state machine *)

NoIngestor == [status |-> "none"]
NoBatch == [op |-> "none"]

\* ingestor = BulkIngestor(output_dir, kb_name)
NewBulkIngestor ==
    \E kb_name \in KbNames, ts \in Timestamps, uuid \in Uuids :
        LET r == BulkIngestorInit(World, kb_name, ts, uuid)
        IN /\ dirs' = r.w.dirs
           /\ files' = r.w.files
           /\ index' = r.w.index
           /\ log' = r.w.log
           /\ ingestor' = IF r.result.status = "ok"
                          THEN [status |-> "ready", kb_name |-> kb_name]
                          ELSE ingestor
           /\ batch' = NoBatch
           /\ UNCHANGED <<nbatches, last, clean, ncalls, citeVars, workerVars, pureVars>>

\* ingestor.process_directory(input_dir)
ProcessDirectory ==
    \E exists \in BOOLEAN, all_files \in SeqsUpTo(InputFiles, MaxFiles),
       ts \in Timestamps, commitOk \in BOOLEAN :
        /\ ingestor.status = "ready"
        /\ nbatches < MaxBatches
        /\ ~exists => all_files = <<>> /\ commitOk
        /\ LET r == process_directory(World, ingestor.kb_name, exists, all_files,
                                      nbatches + 1, ts, commitOk)
           IN /\ dirs' = r.w.dirs
              /\ files' = r.w.files
              /\ index' = r.w.index
              /\ log' = r.w.log
              /\ batch' = [op |-> "process_directory", exists |-> exists,
                           all_files |-> all_files, calls |-> r.calls,
                           commit_ok |-> commitOk, result |-> r.result]
        /\ nbatches' = nbatches + 1
        /\ UNCHANGED <<ingestor, last, clean, ncalls, citeVars, workerVars, pureVars>>

\* ingestor.process_file(file_path), called on its own
ProcessFile ==
    \E f \in InputFiles :
        /\ ingestor.status = "ready"
        /\ nbatches < MaxBatches
        /\ LET r == process_file(World, ingestor.kb_name, f,
                                 _generate_doc_id(nbatches + 1, 1))
           IN /\ dirs' = r.w.dirs
              /\ files' = r.w.files
              /\ index' = r.w.index
              /\ log' = r.w.log
              /\ batch' = [op |-> "process_file", file |-> f, outcome |-> r.outcome]
        /\ nbatches' = nbatches + 1
        /\ UNCHANGED <<ingestor, last, clean, ncalls, citeVars, workerVars, pureVars>>

NextIngest == NewBulkIngestor \/ ProcessDirectory \/ ProcessFile

----------------------------------------------------------------------------
(* The worker pool of ui/app.py as a state machine *)

\* tasks submitted in one run
MaxTasks == 3

\* config 'processing.max_workers'
max_workers == 4

\* initial_workers = max_workers // 2, started by the main entry point
initial_workers == max_workers \div 2

TaskTypes == {"process_batch", "create_maps", "chunk_documents"}
TaskKbs == {"kb1", "kb2"}
Workers == 1..max_workers

\* needed = max(0, min(processing_queue.qsize(), max_workers - worker_count))
needed_workers(qsize, count) ==
    LET m == IF qsize < max_workers - count THEN qsize ELSE max_workers - count
    IN IF m < 0 THEN 0 ELSE m

\* upload_files / api_create_maps / api_chunk_documents: processing_queue.put(task),
\* active_tasks[task_id] = task, ensure_workers()
SubmitTask ==
    \E type \in TaskTypes, kb_name \in TaskKbs :
        /\ Len(tasks) < MaxTasks
        /\ tasks' = Append(tasks, [type |-> type, kb_name |-> kb_name, status |-> "queued"])
        /\ processing_queue' = Append(processing_queue, Len(tasks) + 1)
        /\ worker_count' = worker_count
                           + needed_workers(Len(processing_queue) + 1, worker_count)
        /\ UNCHANGED <<running, repoVars, citeVars, ingestVars, pureVars>>

\* worker_thread: task = processing_queue.get(...), then process_batch /
\* create_maps / chunk_documents sets task['status'] = 'processing'
WorkerTakesTask(w) ==
    /\ w <= worker_count
    /\ running[w] = 0
    /\ processing_queue # <<>>
    /\ running' = [running EXCEPT ![w] = processing_queue[1]]
    /\ processing_queue' = Tail(processing_queue)
    /\ tasks' = [tasks EXCEPT ![processing_queue[1]].status = "processing"]
    /\ UNCHANGED <<worker_count, repoVars, citeVars, ingestVars, pureVars>>

\* the task function returns: task['status'] = 'completed' or 'error',
\* processing_queue.task_done(), back to the get
WorkerFinishesTask(w) ==
    \E status \in {"completed", "error"} :
        /\ running[w] # 0
        /\ tasks' = [tasks EXCEPT ![running[w]].status = status]
        /\ running' = [running EXCEPT ![w] = 0]
        /\ UNCHANGED <<processing_queue, worker_count, repoVars, citeVars, ingestVars, pureVars>>

\* api_process_workflow with a valid batch: the ingestion task is put on
\* the queue and entered in active_tasks, the workflow tracking task is
\* entered in active_tasks only; ensure_workers()
StartWorkflow ==
    \E kb_name \in TaskKbs :
        LET ingest_task_id == Len(tasks) + 1
            workflow_id == Len(tasks) + 2
            ingest_task == [type |-> "process_batch", kb_name |-> kb_name,
                            status |-> "queued", workflow_id |-> workflow_id,
                            workflow_step |-> 1]
            workflow_task == [type |-> "workflow", kb_name |-> kb_name,
                              status |-> "in_progress", tasks |-> <<ingest_task_id>>,
                              current_step |-> 1, total_steps |-> 3]
        IN /\ Len(tasks) + 2 <= MaxTasks
           /\ tasks' = tasks \o <<ingest_task, workflow_task>>
           /\ processing_queue' = Append(processing_queue, ingest_task_id)
           /\ worker_count' = worker_count
                              + needed_workers(Len(processing_queue) + 1, worker_count)
           /\ UNCHANGED <<running, repoVars, citeVars, ingestVars, pureVars>>

\* the endpoints and the worker threads of a server that accepts workflows
NextWorkflow ==
    \/ StartWorkflow
    \/ SubmitTask
    \/ \E w \in Workers : WorkerTakesTask(w)
    \/ \E w \in Workers : WorkerFinishesTask(w)

NextWorkers ==
    \/ SubmitTask
    \/ \E w \in Workers : WorkerTakesTask(w)
    \/ \E w \in Workers : WorkerFinishesTask(w)

----------------------------------------------------------------------------
(* Functions without side effects: the initial state draws the arguments   *)
(* of one call, the action makes the call                                  *)

\* the call as made, with its result
Returned(result) == [op |-> call.op, done |-> TRUE, args |-> call, result |-> result]

\* citation records with and without title, author, version, citation_format
FormatCitations ==
    { Restrict([title |-> "T", author |-> a, version |-> "2.0", citation_format |-> f], D) :
        a \in {"Ann", "Unknown"},
        f \in {"code", "markdown", "pdf", "generic", "other"},
        D \in SUBSET {"title", "author", "version", "citation_format"} }

\* the documents of at most two lines
FormatDocuments == {d \in Documents : Len(d.lines) <= 2}

\* fields a section record may carry besides those of _find_chunk_sections
SectionExtras == {"none", "level", "page_number"}

\* the section list handed to _format_citation: what _find_chunk_sections
\* returns for the chunk and the sections of the document, with the extra
\* field on its first record
FormatSections(doc, chunk, extra) ==
    LET found == _find_chunk_sections(chunk,
                     process_document(doc, CiteDocId,
                                      _create_metadata(doc.suffix, doc.pages)).sections)
    IN CASE found = <<>> -> found
         [] found # <<>> /\ extra = "level" ->
              [found EXCEPT ![1] = Put(Put(@, "type", "header"), "level", 2)]
         [] found # <<>> /\ extra = "page_number" ->
              [found EXCEPT ![1] = Put(Put(@, "type", "page"), "page_number", 1)]
         [] OTHER -> found

FormatCalls ==
    { [op |-> "_format_citation", done |-> FALSE, citation |-> c, doc |-> d,
       chunk |-> ch, extra |-> x] :
        c \in FormatCitations,
        d \in {d \in FormatDocuments :
                 \A ch \in ChunkTexts :
                    ~FindRaises(ch, process_document(d, CiteDocId,
                                       _create_metadata(d.suffix, d.pages)).sections)},
        ch \in ChunkTexts, x \in SectionExtras }

\* citation_text = self._format_citation(citation, sections)
FormatCitation ==
    /\ call.op = "_format_citation" /\ ~call.done
    /\ call' = (CHOOSE r \in
                   { Returned(IF _format_citation_raises(call.citation, sections)
                              THEN Err("KeyError")
                              ELSE Ok(_format_citation(call.citation, sections))) :
                     sections \in {FormatSections(call.doc, call.chunk, call.extra)} } :
                   TRUE)
    /\ UNCHANGED <<repoVars, citeVars, ingestVars, workerVars>>

MarkdownCalls ==
    { [op |-> "_process_markdown_sections", done |-> FALSE, lines |-> l] :
        l \in SeqsUpTo(MarkdownLines, MaxLines) }

\* sections = self._process_markdown_sections(document_path)
ProcessMarkdownSections ==
    /\ call.op = "_process_markdown_sections" /\ ~call.done
    /\ call' = Returned(Ok(_process_markdown_sections(call.lines)))
    /\ UNCHANGED <<repoVars, citeVars, ingestVars, workerVars>>

CodeCalls ==
    { [op |-> "code_file", done |-> FALSE, lines |-> l] :
        l \in SeqsUpTo(CodeLines, MaxLines) }

\* process_file on a Python file: the code metadata that _create_metadata
\* adds and the sections that process_document extracts
IngestCodeFile ==
    /\ call.op = "code_file" /\ ~call.done
    /\ call' = Returned(Ok([metadata |-> _extract_code_metadata("py", call.lines),
                            sections |-> _process_code_sections(call.lines)]))
    /\ UNCHANGED <<repoVars, citeVars, ingestVars, workerVars>>

\* characters of a name: letters of both cases, a digit, the kept
\* punctuation, the space and other punctuation
NameChars == {"a", "B", "1", ".", "-", "_", " ", "!"}

\* the name of the sanitization example, "My KB! 2024"
ExampleName == <<"M", "y", " ", "K", "B", "!", " ", "2", "0", "2", "4">>

SanitizeCalls ==
    { [op |-> "_sanitize_name", done |-> FALSE, name |-> n] :
        n \in SeqsUpTo(NameChars, MaxNameLen) \cup {ExampleName} }

\* self._sanitize_name(name), called twice on the name and once more on
\* what it returned
SanitizeName ==
    /\ call.op = "_sanitize_name" /\ ~call.done
    /\ call' = Returned(Ok([first |-> _sanitize_name(call.name),
                            second |-> _sanitize_name(call.name),
                            twice |-> _sanitize_name(_sanitize_name(call.name))]))
    /\ UNCHANGED <<repoVars, citeVars, ingestVars, workerVars>>

\* the policy of test_retention_policy and the default policy of __init__
TestPolicy ==
    [retention_rules |->
        [financial |-> [default |-> "7yrs", exceptions |-> [SOX |-> "10yrs"]],
         healthcare |-> [hipaa |-> "6yrs", emr |-> "patient_lifetime"]]]
DefaultPolicy == [retention_rules |-> [default |-> "7yrs"]]

DocumentTypes == {"financial", "healthcare", "legal"}
\* category=None is the empty string
Categories == {"", "SOX", "hipaa", "emr"}

\* RetentionPolicy.get_retention_period
get_retention_period(policy, document_type, category) ==
    LET rules == Get(policy, "retention_rules", <<>>)
        type_rules == rules[document_type]
    IN CASE /\ document_type \in DOMAIN rules
            /\ category # ""
            /\ "exceptions" \in DOMAIN type_rules
            /\ category \in DOMAIN type_rules.exceptions ->
               type_rules.exceptions[category]
         [] /\ document_type \in DOMAIN rules
            /\ ~(/\ category # ""
                 /\ "exceptions" \in DOMAIN type_rules
                 /\ category \in DOMAIN type_rules.exceptions)
            /\ "default" \in DOMAIN type_rules ->
               type_rules.default
         [] OTHER -> Get(rules, "default", "7yrs")

RetentionCalls ==
    { [op |-> "get_retention_period", done |-> FALSE, policy |-> p,
       document_type |-> t, category |-> c] :
        p \in {TestPolicy, DefaultPolicy}, t \in DocumentTypes, c \in Categories }

GetRetentionPeriod ==
    /\ call.op = "get_retention_period" /\ ~call.done
    /\ call' = Returned(Ok(get_retention_period(call.policy, call.document_type,
                                                 call.category)))
    /\ UNCHANGED <<repoVars, citeVars, ingestVars, workerVars>>

\* suffixes of ingested files, one or more of every branch of
\* _determine_content_type
FileSuffixes == {"py", "md", "png", "txt", "pdf", "docx", "xlsx", "bin"}

DestinationCalls ==
    { [op |-> "add_document", done |-> FALSE, suffix |-> x] : x \in FileSuffixes }

\* a knowledge base "kb" right after create_kb
FreshKb ==
    create_kb([dirs |-> {}, files |-> NoFiles, index |-> NoFiles,
               log |-> [k \in AllKbs |-> <<>>]],
              <<"k", "b">>, "desc", "owner", "t1", "u1", "none").w

\* process_file's call of add_document with the metadata that
\* _create_metadata builds for a file of the suffix
IngestAddDocument ==
    /\ call.op = "add_document" /\ ~call.done
    /\ call' = Returned(add_document(FreshKb, <<"k", "b">>, "d1", [text |-> "p1"],
                                     _create_metadata(call.suffix, -1),
                                     NoCitation, "none").result)
    /\ UNCHANGED <<repoVars, citeVars, ingestVars, workerVars>>

NextPure ==
    \/ FormatCitation
    \/ ProcessMarkdownSections
    \/ IngestCodeFile
    \/ SanitizeName
    \/ GetRetentionPeriod
    \/ IngestAddDocument

PureCalls ==
    FormatCalls \cup MarkdownCalls \cup CodeCalls \cup SanitizeCalls \cup RetentionCalls
        \cup DestinationCalls

----------------------------------------------------------------------------
(* Specifications *)

NoCall == [op |-> "none", done |-> TRUE]

\* the state after construction: no knowledge base on disk, no ingestor,
\* an empty task queue and the workers started by the main entry point
Init ==
    /\ dirs = {}
    /\ files = NoFiles
    /\ index = NoFiles
    /\ log = [k \in AllKbs |-> <<>>]
    /\ last = [op |-> "none", kb |-> <<>>, args |-> <<>>, result |-> Ok(<<>>),
               commit |-> "none", repeat |-> FALSE]
    /\ clean = TRUE
    /\ ncalls = 0
    /\ cite_doc = [suffix |-> "txt", lines |-> <<>>, readable |-> TRUE, pages |-> -1]
    /\ cite_chunks = <<>>
    /\ citation_files = NoFiles
    /\ cite_result = NoCiteCall
    /\ ingestor = NoIngestor
    /\ batch = NoBatch
    /\ nbatches = 0
    /\ processing_queue = <<>>
    /\ tasks = <<>>
    /\ running = [w \in Workers |-> 0]
    /\ worker_count = initial_workers
    /\ call = NoCall

\* the same state, with the document and the chunk list of the citation
\* calls drawn from Documents and ChunkLists
InitCite ==
    /\ dirs = {}
    /\ files = NoFiles
    /\ index = NoFiles
    /\ log = [k \in AllKbs |-> <<>>]
    /\ last = [op |-> "none", kb |-> <<>>, args |-> <<>>, result |-> Ok(<<>>),
               commit |-> "none", repeat |-> FALSE]
    /\ clean = TRUE
    /\ ncalls = 0
    /\ cite_doc \in Documents
    /\ cite_chunks \in ChunkLists
    /\ citation_files = NoFiles
    /\ cite_result = NoCiteCall
    /\ ingestor = NoIngestor
    /\ batch = NoBatch
    /\ nbatches = 0
    /\ processing_queue = <<>>
    /\ tasks = <<>>
    /\ running = [w \in Workers |-> 0]
    /\ worker_count = initial_workers
    /\ call = NoCall

\* the same state, with the arguments of one call drawn from PureCalls
InitPure ==
    /\ dirs = {}
    /\ files = NoFiles
    /\ index = NoFiles
    /\ log = [k \in AllKbs |-> <<>>]
    /\ last = [op |-> "none", kb |-> <<>>, args |-> <<>>, result |-> Ok(<<>>),
               commit |-> "none", repeat |-> FALSE]
    /\ clean = TRUE
    /\ ncalls = 0
    /\ cite_doc = [suffix |-> "txt", lines |-> <<>>, readable |-> TRUE, pages |-> -1]
    /\ cite_chunks = <<>>
    /\ citation_files = NoFiles
    /\ cite_result = NoCiteCall
    /\ ingestor = NoIngestor
    /\ batch = NoBatch
    /\ nbatches = 0
    /\ processing_queue = <<>>
    /\ tasks = <<>>
    /\ running = [w \in Workers |-> 0]
    /\ worker_count = initial_workers
    /\ call \in PureCalls

\* a knowledge base "kb" to which document "d1" was added: the state
\* after create_kb and one add_document, both committed
InitDocument ==
    \E metadata \in Metadatas :
        \E r \in { add_document(FreshKb, <<"k", "b">>, "d1", [text |-> "p1"],
                                metadata, NoCitation, "none") } :
            /\ dirs = r.w.dirs
            /\ files = r.w.files
            /\ index = r.w.index
            /\ log = r.w.log
            /\ last = [op |-> "add_document", kb |-> <<"k", "b">>, result |-> r.result,
                       args |-> <<"d1", [text |-> "p1"], metadata, NoCitation>>,
                       commit |-> r.commit, repeat |-> FALSE]
            /\ clean = TRUE
            /\ ncalls = 0
            /\ cite_doc = [suffix |-> "txt", lines |-> <<>>, readable |-> TRUE, pages |-> -1]
            /\ cite_chunks = <<>>
            /\ citation_files = NoFiles
            /\ cite_result = NoCiteCall
            /\ ingestor = NoIngestor
            /\ batch = NoBatch
            /\ nbatches = 0
            /\ processing_queue = <<>>
            /\ tasks = <<>>
            /\ running = [w \in Workers |-> 0]
            /\ worker_count = initial_workers
            /\ call = NoCall

\* the operations on documents of an existing knowledge base
\* calls made on the existing document in one run
MaxReruns == 2

\* add_document, add_chunks and clone_kb called on the existing document
RerunAddDocument == ncalls < MaxReruns /\ AddDocument
RerunAddChunks == ncalls < MaxReruns /\ AddChunks

CloneExisting == ncalls < MaxReruns /\ CloneKb

NextDocument == RerunAddDocument \/ RerunAddChunks \/ CloneExisting

SpecRepo == Init /\ [][NextRepo]_vars

SpecCite == InitCite /\ [][NextCite]_vars

SpecIngest == Init /\ [][NextIngest]_vars

SpecWorkers == Init /\ [][NextWorkers]_vars

SpecPure == InitPure /\ [][NextPure]_vars

SpecDocument == InitDocument /\ [][NextDocument]_vars

\* every started worker thread is scheduled: it takes a task when the queue
\* holds one, and the task function it runs returns
WorkerFairness ==
    \A w \in Workers : WF_vars(WorkerTakesTask(w)) /\ WF_vars(WorkerFinishesTask(w))

SpecWorkflow == Init /\ [][NextWorkflow]_vars /\ WorkerFairness

----------------------------------------------------------------------------
(* Claims about KnowledgeBaseRepository, checked under SpecRepo *)

HeadCommit(kb) == log[kb][Len(log[kb])]

\* the 13 fixed subdirectories, as the specification lists them
FixedSubdirs ==
    { <<"raw">>, <<"processed">>, <<"metadata">>, <<"citations">>,
      <<"chunks", "text">>, <<"chunks", "metadata">>, <<"vectors">>,
      <<"workflows">>, <<"pdfs">>, <<"documentation", "processes">>,
      <<"documentation", "maps">>, <<"documentation", "guides">>, <<"index">> }

\* C1: after a successful create_kb on a name whose sanitized directory did
\* not exist, the knowledge base holds the 13 fixed subdirectories, a
\* kb_info.json with a generated UUID and a non-empty created_at, README.md
\* and .gitignore, and its commit log holds exactly the genesis commit.
C1_CreateKbLayout ==
    (last.op = "create_kb" /\ last.result.status = "ok") =>
        /\ Cardinality(FixedSubdirs) = 13
        /\ \A d \in FixedSubdirs : <<last.kb, d>> \in dirs
        /\ KbInfoPath(last.kb) \in DOMAIN files
        /\ files[KbInfoPath(last.kb)].uuid \in Uuids
        /\ files[KbInfoPath(last.kb)].created_at \in Timestamps
        /\ files[KbInfoPath(last.kb)].created_at # ""
        /\ ReadmePath(last.kb) \in DOMAIN files
        /\ GitignorePath(last.kb) \in DOMAIN files
        /\ Len(log[last.kb]) = 1
        /\ log[last.kb][1].msg = "Initialize"

C1_Witness ==
    /\ last.op = "create_kb"
    /\ last.result.status = "ok"
    /\ ncalls = 1

\* C2: an add_document call that repeats the preceding successful
\* add_document call (same kb, doc_id, processed file, metadata, citation)
\* leaves the processed copy, the metadata JSON and the citation JSON as the
\* first call left them, and its commit adds exactly one entry to the log.
C2_AddDocumentIdempotent ==
    [][ (last'.op = "add_document" /\ last'.repeat /\ last'.result.status = "ok") =>
          LET kb == last'.kb
              doc_id == last'.args[1]
              content_type == Get(last'.args[3], "content_type", "unknown")
              artifacts == { dest_path(kb, doc_id, content_type),
                             MetadataPath(kb, doc_id), CitationPath(kb, doc_id) }
          IN /\ \A p \in artifacts :
                   /\ p \in DOMAIN files' <=> p \in DOMAIN files
                   /\ p \in DOMAIN files => files'[p] = files[p]
             /\ dest_path(kb, doc_id, content_type) \in DOMAIN files
             /\ last'.commit = "ok" => Len(log'[kb]) = Len(log[kb]) + 1
             /\ last'.commit # "ok" => log'[kb] = log[kb]
      ]_repoVars

C2_Witness ==
    /\ last.op = "add_document"
    /\ last.repeat
    /\ last.result.status = "ok"
    /\ last.commit = "ok"
    /\ Len(log[last.kb]) = 3

\* C3: in a run in which every commit succeeded, every file under a
\* knowledge base directory is contained, with its content, in the latest
\* commit of that knowledge base.
C3_WorkingTreeCommitted ==
    clean =>
        \A kb \in AllKbs :
            log[kb] # <<>> =>
                \A p \in FilesOf(files, kb) :
                    /\ p \in DOMAIN HeadCommit(kb).tree
                    /\ HeadCommit(kb).tree[p] = files[p]

\* C4: when the git add/commit step of add_document, add_chunks or
\* update_documentation fails, the operation returns its normal result and
\* every file it wrote is on disk with the content it wrote.
C4_CommitFailureKeepsWrites ==
    (last.op \in {"add_document", "add_chunks", "update_documentation"}
       /\ last.commit = "failed") =>
        /\ last.result.status = "ok"
        /\ last.op = "add_document" =>
             LET doc_id == last.args[1]
                 content_type == Get(last.args[3], "content_type", "unknown")
                 dst == Path(last.kb,
                             <<"processed", IF content_type = "code" THEN "code"
                                            ELSE IF content_type = "pdf" THEN "documents"
                                            ELSE "other">>,
                             <<doc_id, "md">>)
             IN /\ last.result.value = dst
                /\ dst \in DOMAIN files /\ files[dst] = last.args[2]
                /\ MetadataPath(last.kb, doc_id) \in DOMAIN files
                /\ files[MetadataPath(last.kb, doc_id)] = last.args[3]
                /\ last.args[4] # NoCitation =>
                     /\ CitationPath(last.kb, doc_id) \in DOMAIN files
                     /\ files[CitationPath(last.kb, doc_id)] = last.args[4]
                /\ content_type # "pdf" => PdfPath(last.kb, doc_id) \in DOMAIN files
        /\ last.op = "add_chunks" =>
             LET doc_id == last.args[1]
                 n == Min(Len(last.args[2]), Len(last.args[3]))
             IN /\ Len(last.result.value) = n
                /\ \A j \in 1..n :
                     /\ last.result.value[j].chunk_id = <<doc_id, "chunk", j - 1>>
                     /\ ChunkTextPath(last.kb, doc_id, j - 1) \in DOMAIN files
                     /\ files[ChunkTextPath(last.kb, doc_id, j - 1)] = last.args[2][j]
                     /\ ChunkMetaPath(last.kb, doc_id, j - 1) \in DOMAIN files
                     /\ files[ChunkMetaPath(last.kb, doc_id, j - 1)] = last.args[3][j]
        /\ last.op = "update_documentation" =>
             /\ last.result.value = DocumentationPath(last.kb, last.args[1], last.args[2])
             /\ last.result.value \in DOMAIN files
             /\ files[last.result.value] = last.args[3]

C4_Witness ==
    /\ last.op = "add_chunks"
    /\ last.commit = "failed"
    /\ Len(last.result.value) = 2
    /\ MetadataPath(last.kb, last.args[1]) \in DOMAIN files

\* C7: whenever add_document or add_chunks writes into a knowledge base, the
\* 13 fixed subdirectories of that knowledge base already exist; when
\* kb_info.json is absent, also after a create_kb that failed part-way, the
\* call fails with not-found and writes nothing.
C7_TreeBeforeDocuments ==
    [][ (last'.op \in {"add_document", "add_chunks"}) =>
          /\ (files' # files \/ dirs' # dirs) =>
                \A d \in FixedSubdirs : <<last'.kb, d>> \in dirs
          /\ KbInfoPath(last'.kb) \notin DOMAIN files =>
                /\ last'.result.status = "NotFound"
                /\ files' = files
                /\ dirs' = dirs
      ]_repoVars

C7_Witness ==
    /\ last.op = "add_document"
    /\ last.result.status = "ok"
    /\ last.result.value \in DOMAIN files
    /\ \A d \in FixedSubdirs : <<last.kb, d>> \in dirs

\* C8: create_kb on a name whose sanitized directory already exists fails
\* with already-exists and changes no directory, file, index or commit log.
C8_CreateKbExisting ==
    [][ (last'.op = "create_kb" /\ <<last'.kb, <<>>>> \in dirs) =>
          /\ last'.result.status = "AlreadyExists"
          /\ dirs' = dirs
          /\ files' = files
          /\ index' = index
          /\ log' = log
      ]_repoVars

C8_Witness ==
    /\ last.op = "create_kb"
    /\ last.result.status = "AlreadyExists"
    /\ KbInfoPath(last.kb) \in DOMAIN files
    /\ log[last.kb] # <<>>

----------------------------------------------------------------------------
(* Claims about BulkIngestor.process_directory, under SpecIngest *)

\* C5: in process_directory on an existing input directory, process_file is
\* called on every enumerated file, in order, whichever of them raise, and
\* the returned list holds exactly the doc_ids of the files whose
\* process_file returned a doc_id (the file is not hidden, its copy did not
\* raise and add_document found the knowledge base), in enumeration order.
C5_BatchContinues ==
    (batch.op = "process_directory" /\ batch.exists) =>
        LET n == Len(batch.all_files)
            entries == [i \in 1..n |-> [id |-> DocIdTable[nbatches][i],
                                        f |-> batch.all_files[i]]]
            done == SelectSeq(entries, LAMBDA e : /\ ~e.f.hidden
                                                  /\ e.f.fail = "none"
                                                  /\ get_kb_found(World, ingestor.kb_name))
        IN /\ batch.calls = [i \in 1..n |-> i]
           /\ batch.result.status = "ok" =>
                 batch.result.value = [i \in 1..Len(done) |-> done[i].id]
           /\ batch.result.status \in {"ok", "VCSCommitFailure"}

\* C5 witness: a batch whose first file raised and whose second file was
\* still processed and is the only doc_id returned.
C5_Witness ==
    /\ batch.op = "process_directory"
    /\ Len(batch.all_files) = 2
    /\ ~batch.all_files[1].hidden /\ batch.all_files[1].fail = "copy"
    /\ batch.calls = <<1, 2>>
    /\ batch.result.status = "ok"
    /\ Len(batch.result.value) = 1

\* C9: process_directory on an existing input directory writes the batch
\* index with document_count equal to the length of its documents list; the
\* list it returns is that documents list, and on an empty directory it is
\* empty and the count is 0.
C9_IndexMatchesResult ==
    (batch.op = "process_directory" /\ batch.exists) =>
        /\ IndexPath \in DOMAIN files
        /\ files[IndexPath].document_count = Len(files[IndexPath].documents)
        /\ batch.result.status = "ok" =>
              /\ files[IndexPath].documents = batch.result.value
              /\ files[IndexPath].document_count = Len(batch.result.value)
              /\ batch.all_files = <<>> =>
                    batch.result.value = <<>> /\ files[IndexPath].document_count = 0

\* C9 witness: a batch that enumerated more files than it returned doc_ids
\* for, with the index written for the returned list.
C9_Witness ==
    /\ batch.op = "process_directory"
    /\ batch.result.status = "ok"
    /\ Len(batch.result.value) = 1
    /\ Len(batch.all_files) = 2
    /\ IndexPath \in DOMAIN files
    /\ files[IndexPath].document_count = 1

\* C19: process_file on a hidden file returns None and has no effect: no
\* directory is made, no file is written, nothing is staged and no commit
\* is made, in the output directory or in the knowledge base.
C19_HiddenFileNoEffect ==
    [][(batch'.op = "process_file" /\ batch'.file.hidden /\ nbatches' = nbatches + 1) =>
          /\ batch'.outcome = "none"
          /\ UNCHANGED <<dirs, files, index, log>>]_vars

\* C19 witness: process_file was called on a hidden file.
C19_Witness ==
    /\ batch.op = "process_file"
    /\ batch.file.hidden
    /\ batch.outcome = "none"
    /\ ingestor.status = "ready"

----------------------------------------------------------------------------
(* Claim about the worker pool, under SpecWorkers *)

\* C6: at no time are two worker threads executing tasks that target the
\* same knowledge base.
C6_OneWriterPerKb ==
    \A w1, w2 \in Workers :
        (w1 # w2 /\ running[w1] # 0 /\ running[w2] # 0) =>
            tasks[running[w1]].kb_name # tasks[running[w2]].kb_name

----------------------------------------------------------------------------
(* Claim about CitationProcessor.generate_chunk_citations, under SpecCite *)

\* C10: for a document whose citation was persisted by process_document,
\* generate_chunk_citations does not raise and returns one chunk citation
\* per chunk.
C10_NeverRaises ==
    (cite_result.op = "generate_chunk_citations" /\ CiteDocId \in DOMAIN citation_files) =>
        /\ cite_result.result.status = "ok"
        /\ Len(cite_result.result.value) = Len(cite_chunks)

\* C12: for a markdown document, a chunk that is a substring of the raw text
\* of a level-2 heading's section and of no earlier section gets a chunk
\* citation whose first section record has type "header" and level 2.
C12_MatchedSectionLevel ==
    (/\ cite_result.op = "generate_chunk_citations"
     /\ CiteDocId \in DOMAIN citation_files
     /\ cite_result.result.status = "ok"
     /\ _is_markdown_file(cite_doc.suffix)) =>
        LET sections == _process_markdown_sections(cite_doc.lines)
        IN \A i \in 1..Len(cite_chunks), j \in 1..Len(sections) :
              (/\ sections[j].type = "header" /\ sections[j].level = 2
               /\ IsSubstring(cite_chunks[i], sections[j].lines)
               /\ \A k \in 1..(j - 1) : ~IsSubstring(cite_chunks[i], sections[k].lines)) =>
                  /\ cite_result.result.value[i].sections[1].type = "header"
                  /\ Get(cite_result.result.value[i].sections[1], "level", 0) = 2

\* C15: every section persisted by process_document that has both
\* start_line and end_line has start_line <= end_line, for every input file
\* including a file with zero lines.
C15_StartBeforeEnd ==
    \A d \in DOMAIN citation_files :
        \A i \in 1..Len(citation_files[d].sections) :
            LET sec == citation_files[d].sections[i]
            IN {"start_line", "end_line"} \subseteq DOMAIN sec =>
                  sec.start_line <= sec.end_line

----------------------------------------------------------------------------
(* Claims about functions without side effects, under SpecPure *)

\* C11: _format_citation does not raise for any citation format, any
\* combination of present and absent title, author and version and any
\* section list of _find_chunk_sections, and the text it returns contains
\* the citation's title when the citation has one.
C11_FormatNeverRaises ==
    (call.op = "_format_citation" /\ call.done) =>
        /\ call.result.status = "ok"
        /\ "title" \in DOMAIN call.args.citation =>
              \E i \in 1..Len(call.result.value) :
                  /\ "text" \in DOMAIN call.result.value[i]
                  /\ call.result.value[i].text = call.args.citation.title

\* C11 witness: a citation with a title and no author, version or format was
\* formatted for a non-empty section list and the text names the title.
C11_Witness ==
    /\ call.op = "_format_citation" /\ call.done
    /\ DOMAIN call.args.citation = {"title"}
    /\ call.args.extra = "none"
    /\ call.result.status = "ok"
    /\ Len(call.result.value) = 2
    /\ call.result.value[1].text = "T"

\* C13: for every markdown file the "header" sections of
\* _process_markdown_sections hold, in order, consecutive spans of the
\* file's lines: their line ranges start at 1, follow one another without
\* gap or overlap and end at the last line, each section's raw lines are
\* the lines of its range, only the first section can be the synthetic
\* level-0 one and it holds exactly the lines before the first heading.
C13_MarkdownRoundTrip ==
    (call.op = "_process_markdown_sections" /\ call.done) =>
        LET md_lines == call.args.lines
            N == Len(md_lines)
            headers == SelectSeq(call.result.value, LAMBDA x : x.type = "header")
            n == Len(headers)
            firstHeading == IF \E i \in 1..N : md_lines[i].k = "h"
                            THEN CHOOSE i \in 1..N :
                                    /\ md_lines[i].k = "h"
                                    /\ \A j \in 1..(i - 1) : md_lines[j].k # "h"
                            ELSE N + 1
        IN /\ N > 0 => n > 0 /\ headers[1].start_line = 1 /\ headers[n].end_line = N
           /\ N = 0 => n = 0
           /\ \A i \in 1..n :
                 /\ headers[i].start_line <= headers[i].end_line
                 /\ headers[i].lines = SubSeq(md_lines, headers[i].start_line,
                                              headers[i].end_line)
                 /\ i < n => headers[i + 1].start_line = headers[i].end_line + 1
                 /\ headers[i].level = 0 =>
                       i = 1 /\ headers[i].lines = SubSeq(md_lines, 1, firstHeading - 1)
                 /\ headers[i].level # 0 => md_lines[headers[i].start_line].k = "h"
           /\ (firstHeading > 1 /\ N > 0) => headers[1].level = 0

\* C13 witness: a file with leading content and two headings was split in
\* three sections.
C13_Witness ==
    /\ call.op = "_process_markdown_sections" /\ call.done
    /\ Len(call.args.lines) = 3
    /\ call.args.lines[1].k = "text"
    /\ Len(call.result.value) = 3
    /\ call.result.value[1].level = 0

\* C14: every class or function section of a code file has
\* 1 <= start_line <= end_line <= total_lines, start_line is the line of its
\* declaration, and end_line is the line before the first later declaration
\* that ends it (a class for a class; a def or a class for a function) or
\* the last line of the file.
C14_CodeSectionBounds ==
    (call.op = "code_file" /\ call.done) =>
        LET code_lines == call.args.lines
            N == Len(code_lines)
            sections == call.result.value.sections
            ends(type, l) == IF type = "class" THEN l.k = "class"
                             ELSE l.k \in {"def", "class"}
        IN \A i \in 1..Len(sections) :
              sections[i].type \in {"class", "function"} =>
                 LET sec == sections[i]
                 IN /\ 1 <= sec.start_line
                    /\ sec.start_line <= sec.end_line
                    /\ sec.end_line <= N
                    /\ code_lines[sec.start_line].k =
                          (IF sec.type = "class" THEN "class" ELSE "def")
                    /\ code_lines[sec.start_line].name = sec.name
                    /\ \A j \in (sec.start_line + 1)..sec.end_line :
                          ~ends(sec.type, code_lines[j])
                    /\ sec.end_line < N => ends(sec.type, code_lines[sec.end_line + 1])

\* C14 witness: a function section that ends at the line before the next
\* declaration, and one that ends at the last line of the file.
C14_Witness ==
    /\ call.op = "code_file" /\ call.done
    /\ Len(call.args.lines) = 3
    /\ Len(call.result.value.sections) = 2
    /\ call.result.value.sections[1].type = "function"
    /\ call.result.value.sections[1].end_line = 2
    /\ call.result.value.sections[2].end_line = 3

\* C16: for a Python file that declares no class, the function
\* sections are the def declarations, one each and in source order, and
\* metadata.functions lists the same names in the same order.
C16_FunctionsAsStated ==
    (/\ call.op = "code_file" /\ call.done
     /\ \A i \in 1..Len(call.args.lines) : call.args.lines[i].k # "class") =>
        LET decls == SelectSeq(call.args.lines, LAMBDA l : l.k = "def")
            fsec == SelectSeq(call.result.value.sections, LAMBDA x : x.type = "function")
        IN /\ Len(fsec) = Len(decls)
           /\ \A i \in 1..Len(fsec) : fsec[i].name = decls[i].name
           /\ call.result.value.metadata.functions = [i \in 1..Len(decls) |-> decls[i].name]

\* C17: sanitization keeps alphanumerics, '.', '-' and '_', turns a space
\* into an underscore and lowercases, character by character, and
\* sanitize("My KB! 2024") is "my_kb_2024".
C17_SanitizeExample ==
    (call.op = "_sanitize_name" /\ call.done) =>
        LET x == call.args.name
            y == call.result.value.first
        IN /\ Len(y) = Len(x)
           /\ \A i \in 1..Len(x) :
                 /\ x[i] \in Letters \cup Digits \cup {".", "-", "_"} => y[i] = x[i]
                 /\ x[i] \in Uppers => UpperOf[y[i]] = x[i]
                 /\ x[i] = " " => y[i] = "_"
           /\ x = ExampleName =>
                 y = <<"m", "y", "_", "k", "b", "_", "2", "0", "2", "4">>

\* C18: sanitization is deterministic and idempotent: two calls on the same
\* name return the same, and sanitizing the result returns the result.
C18_SanitizeIdempotent ==
    (call.op = "_sanitize_name" /\ call.done) =>
        /\ call.result.value.second = call.result.value.first
        /\ call.result.value.twice = call.result.value.first

\* C18 witness: a name with an upper-case letter, a space and punctuation
\* was sanitized to a different name, which sanitization leaves as it is.
C18_Witness ==
    /\ call.op = "_sanitize_name" /\ call.done
    /\ call.args.name = <<"B", " ", "!">>
    /\ call.result.value.first = <<"b", "_", "_">>
    /\ call.result.value.twice = <<"b", "_", "_">>

\* C20: get_retention_period(document_type, category) returns the period
\* configured for the category under the document type, whether the category
\* is listed under the type's 'exceptions' or is a key of the type's rules,
\* and the type's 'default' when no category is given.
C20_RetentionPeriod ==
    (call.op = "get_retention_period" /\ call.done
        /\ call.args.document_type \in DOMAIN call.args.policy.retention_rules) =>
        LET type_rules == call.args.policy.retention_rules[call.args.document_type]
            category == call.args.category
            period == call.result.value
        IN /\ (/\ category # ""
               /\ "exceptions" \in DOMAIN type_rules
               /\ category \in DOMAIN type_rules.exceptions) =>
                  period = type_rules.exceptions[category]
           /\ (category # "" /\ category \in DOMAIN type_rules) =>
                  period = type_rules[category]
           /\ (category = "" /\ "default" \in DOMAIN type_rules) =>
                  period = type_rules.default

\* C21: add_document copies the processed artifact of an ingested file
\* into the subtree of its content type: code to processed/code, markdown to
\* processed/markdown, pdf, doc, docx, ppt, pptx, xls and xlsx to
\* processed/documents, every other type to processed/other, as {doc_id}.md.
C21_TypePartitionedSubtree ==
    (call.op = "add_document" /\ call.done) =>
        LET x == call.args.suffix
            subtree == CASE x \in code_extensions -> "code"
                         [] x \in markdown_extensions -> "markdown"
                         [] x \in {"pdf", "doc", "docx", "ppt", "pptx", "xls", "xlsx"}
                              -> "documents"
                         [] OTHER -> "other"
        IN /\ call.result.status = "ok"
           /\ call.result.value =
                 [kb |-> <<"k", "b">>, dir |-> <<"processed", subtree>>,
                  name |-> <<"d1", "md">>]

\* C22: chunk-to-section matching is by containment for code, markdown and
\* generic citations: the sections returned for a chunk are exactly the
\* sections whose raw source text contains the chunk's text, in section
\* order, and the single generic reference to the document's first section
\* is returned only when no section contains it.
C22_MatchByContainment ==
    (/\ cite_result.op = "generate_chunk_citations"
     /\ CiteDocId \in DOMAIN citation_files
     /\ cite_result.result.status = "ok"
     /\ cite_doc.suffix \in code_extensions \cup markdown_extensions \cup {"txt"}) =>
        LET sections == citation_files[CiteDocId].sections
            raw(j) == IF {"start_line", "end_line"} \subseteq DOMAIN sections[j]
                      THEN SubSeq(cite_doc.lines, sections[j].start_line,
                                  sections[j].end_line)
                      ELSE cite_doc.lines
        IN \A i \in 1..Len(cite_chunks) :
              LET hits == SelectSeq([j \in 1..Len(sections) |-> j],
                                    LAMBDA j : IsSubstring(cite_chunks[i], raw(j)))
                  found == cite_result.result.value[i].sections
              IN IF hits = <<>>
                 THEN /\ Len(found) = 1
                      /\ found[1].type = "document"
                      /\ found[1].name = sections[1].name
                 ELSE /\ Len(found) = Len(hits)
                      /\ \A k \in 1..Len(hits) :
                            /\ found[k].type = sections[hits[k]].type
                            /\ found[k].name = sections[hits[k]].name

----------------------------------------------------------------------------
(* Claims about add_chunks, add_document and clone_kb, under SpecRepo *)

\* C23: after add_chunks with n chunks and n metadata records on a document
\* whose metadata file exists, for every i in 0..n-1 the chunk text file and
\* the chunk metadata file of index i exist and hold chunks[i] and
\* chunk_metadata[i], the returned list has n references in index order with
\* chunk_id = doc_id + "_chunk_" + i, and the chunk list in the document's
\* metadata equals the returned list.
C23_ChunksRecorded ==
    (/\ last.op = "add_chunks"
     /\ last.result.status = "ok"
     /\ Len(last.args[2]) = Len(last.args[3])
     /\ MetadataPath(last.kb, last.args[1]) \in DOMAIN files) =>
        LET kb == last.kb
            doc_id == last.args[1]
            chunks == last.args[2]
            chunk_metadata == last.args[3]
            returned == last.result.value
        IN /\ Len(returned) = Len(chunks)
           /\ \A i \in 0..(Len(chunks) - 1) :
                 /\ ChunkTextPath(kb, doc_id, i) \in DOMAIN files
                 /\ files[ChunkTextPath(kb, doc_id, i)] = chunks[i + 1]
                 /\ ChunkMetaPath(kb, doc_id, i) \in DOMAIN files
                 /\ files[ChunkMetaPath(kb, doc_id, i)] = chunk_metadata[i + 1]
                 /\ returned[i + 1] =
                       [chunk_id |-> <<doc_id, "chunk", i>>,
                        text_path |-> ChunkTextPath(kb, doc_id, i),
                        metadata_path |-> ChunkMetaPath(kb, doc_id, i)]
           /\ files[MetadataPath(kb, doc_id)].chunks = returned

\* C23 witness: add_chunks with two chunks and two metadata records has
\* returned on a document that has a metadata file.
C23_Witness ==
    /\ last.op = "add_chunks"
    /\ last.result.status = "ok"
    /\ Len(last.args[2]) = 2
    /\ Len(last.args[3]) = 2
    /\ MetadataPath(last.kb, last.args[1]) \in DOMAIN files
    /\ Len(files[MetadataPath(last.kb, last.args[1])].chunks) = 2

----------------------------------------------------------------------------
(* Claims about BulkIngestor, under SpecIngest *)

\* C24: a failure of the final batch commit of process_directory, issued
\* after the index is written, is caught and not propagated:
\* process_directory still returns the list of processed doc_ids and the
\* index file stays on disk.
C24_CommitFailureNonFatal ==
    (batch.op = "process_directory" /\ batch.exists /\ ~batch.commit_ok) =>
        /\ batch.result.status = "ok"
        /\ IndexPath \in DOMAIN files
        /\ batch.result.value = files[IndexPath].documents

----------------------------------------------------------------------------
(* Claims about section extraction, under SpecPure *)

\* C25: for a markdown file without a heading line, empty or not, section
\* extraction returns exactly one section, of type "file" and named after
\* the file stem, that carries a content_hash and a citation_key.
C25_FileLevelFallback ==
    (/\ call.op = "_process_markdown_sections" /\ call.done
     /\ \A i \in 1..Len(call.args.lines) : ~IsHeaderLine(call.args.lines[i])) =>
        LET sections == call.result.value
        IN /\ Len(sections) = 1
           /\ sections[1].type = "file"
           /\ sections[1].name = Stem
           /\ {"content_hash", "citation_key"} \subseteq DOMAIN sections[1]

\* C26: constructing a BulkIngestor ensures that its knowledge base exists,
\* for every kb_name including names that sanitization changes: once an
\* ingestor is constructed, get_kb(kb_name) finds the knowledge base.
C26_ConstructionEnsuresKb ==
    ingestor.status = "ready" => get_kb_found(World, ingestor.kb_name)

----------------------------------------------------------------------------
(* Claims about re-runs on an existing document, under SpecDocument *)

\* C27: a document's metadata is append-only with respect to chunk
\* references: once add_chunks has recorded chunk references in
\* metadata/{doc_id}.json, no later add_document call for the doc_id removes
\* them while the chunk files remain on disk.
C27_ChunkRefsAppendOnly ==
    [][ last'.op = "add_document" =>
          \A kb \in KbNames, doc_id \in DocIds :
             LET metadata_path == MetadataPath(kb, doc_id)
             IN (/\ metadata_path \in DOMAIN files
                 /\ "chunks" \in DOMAIN files[metadata_path]
                 /\ \A ref \in Range(files[metadata_path].chunks) :
                       {ref.text_path, ref.metadata_path} \subseteq DOMAIN files') =>
                    /\ metadata_path \in DOMAIN files'
                    /\ "chunks" \in DOMAIN files'[metadata_path]
                    /\ Range(files[metadata_path].chunks)
                          \subseteq Range(files'[metadata_path].chunks)
      ]_vars

\* C28: after add_chunks calls for a doc_id, the chunk text files and chunk
\* metadata files on disk for the doc_id are exactly those listed in the
\* chunk list of the document's metadata: re-chunking into fewer chunks
\* leaves no stale chunk file.
C28_NoStaleChunkFiles ==
    (/\ last.op = "add_chunks"
     /\ last.result.status = "ok"
     /\ MetadataPath(last.kb, last.args[1]) \in DOMAIN files) =>
        LET kb == last.kb
            doc_id == last.args[1]
            listed == files[MetadataPath(kb, doc_id)].chunks
            on_disk(dir) == {p \in DOMAIN files :
                                p.kb = kb /\ p.dir = dir /\ p.name[1] = doc_id}
        IN /\ on_disk(chunks_text_dir) = {ref.text_path : ref \in Range(listed)}
           /\ on_disk(chunks_metadata_dir) = {ref.metadata_path : ref \in Range(listed)}

\* C29: clone_kb on a knowledge base that has a repository produces, like
\* the deep-copy branch, a destination tree that contains every file and
\* every fixed subdirectory present in the source knowledge base's working
\* tree at the time of the call.
C29_CloneContainsWorkingTree ==
    (last.op = "clone_kb" /\ last.result.status = "ok") =>
        LET destination == last.result.value
        IN /\ \A p \in FilesOf(files, last.kb) :
                 /\ [dir |-> p.dir, name |-> p.name] \in DOMAIN destination.files
                 /\ destination.files[[dir |-> p.dir, name |-> p.name]] = files[p]
           /\ \A d \in FixedSubdirs :
                 <<last.kb, d>> \in dirs => d \in destination.dirs

----------------------------------------------------------------------------
(* Claim about the workflow endpoint, under SpecWorkflow *)

\* C30: after api_process_workflow accepts a batch, under fair scheduling
\* of the worker threads the workflow tracking task eventually leaves
\* 'in_progress' and ends completed with current_step equal to
\* total_steps (3).
C30_WorkflowCompletes ==
    \A i \in 1..MaxTasks :
        (IF i \in DOMAIN tasks THEN tasks[i].type = "workflow" ELSE FALSE) ~>
            (IF i \in DOMAIN tasks
             THEN IF tasks[i].type = "workflow"
                  THEN /\ tasks[i].status = "completed"
                       /\ tasks[i].current_step = 3
                       /\ tasks[i].total_steps = 3
                  ELSE FALSE
             ELSE FALSE)

====
